---- MODULE Spec2Model ----
(***************************************************************************)
(* Icespeak: the audio result cache of icespeak/tts.py.                    *)
(*                                                                         *)
(* text_to_speech is wrapped by cachetools' @cached(_AUDIO_CACHE), where   *)
(* _AUDIO_CACHE is a TmpFileLFUCache (an LFUCache whose popitem schedules  *)
(* the evicted file for deletion).  A daemon thread (_cleanup) unlinks the *)
(* scheduled files and an atexit handler (_evict_all) drains the cache.    *)
(*                                                                         *)
(* Speeds are written in tenths (1.0 is 10).  Audio files are numbered in  *)
(* the order the backends create them (each backend names its output with  *)
(* a fresh uuid4).                                                         *)
(*                                                                         *)
(* The second part is the tag parser of icespeak/parser.py: the handlers   *)
(* of GreynirSSMLParser, called by HTMLParser.feed once for each start     *)
(* tag, end tag, empty tag and run of character data of the voice string.  *)
(* A string is a sequence of characters and words.                         *)
(***************************************************************************)
EXTENDS Integers, Sequences, FiniteSets, TLC

\* ---------------------------------------------------------------- bounds
MaxCacheSize == 2       \* largest AUDIO_CACHE_SIZE tried
NumTexts == 2           \* distinct texts requested
MaxFiles == 3           \* backend invocations started by the callers
MaxFreq == 2            \* a caller does not start a call on a key used this often
NumThreads == 2         \* caller threads of the concurrent specification
ThreadTexts == 2        \* distinct texts requested in the concurrent specification
ThreadFiles == 2        \* backend invocations started in the concurrent specification
MaxTokens == 4          \* handler calls HTMLParser.feed makes in one transcribe
MaxWritten == 121       \* largest whole part of the number of an amount or measurement
MaxFracLen == 2         \* most digits after the decimal comma of such a number

\* ------------------------------------------------------ program constants
MIN_SPEED == 5
MAX_SPEED == 20
DEFAULT_VOICE_SPEED == 10
DEFAULT_VOICE == "Gudrun"
VOICES == {"Gudrun", "Gunnar"}
DEFAULT_AUDIO_FORMAT == "mp3"
AUDIO_FORMATS == {"mp3"}        \* the formats the service of the voices produces

NoFile == 0             \* no Path
Evicted == -1           \* in lastRet: the key's entry has been evicted
NoneItem == 0           \* the None put on _EXPIRED_QUEUE to stop the worker
NotPassed == ""         \* keyword argument voice / audio_format left out of the call
NotPassedNum == 0       \* argument text / speed left out of the call

GSSML_TAG == "greynir"
OtherTag == "b"         \* any tag that is not GSSML_TAG

Threads == 1..NumThreads
MainThread == 1
Texts == 1..NumTexts

VARIABLES
    maxsize,        \* SETTINGS.AUDIO_CACHE_SIZE, the maxsize of _AUDIO_CACHE
    clean,          \* SETTINGS.AUDIO_CACHE_CLEAN
    data,           \* Cache.__data: key -> audio file
    counter,        \* LFUCache.__counter, in the Counter's insertion order
    currsize,       \* Cache.__currsize
    expired,        \* _EXPIRED_QUEUE
    disk,           \* audio files that exist in the audio directory
    nextFile,       \* the next fresh file name
    pc, req, val, outcome,  \* each caller thread: position, arguments, value, result
    invoked,        \* whether the service function was invoked in the thread's call
    nevict,         \* evictions made by the thread's call
    repeats,        \* the call repeats the thread's last call, which the service failed
    wpc, wfile,     \* the audio_cleanup thread
    tpc, tfile,     \* the atexit handler _evict_all, and the process with it
    lastRet,        \* key -> file last returned for it, Evicted after its eviction
    lastEvict,      \* the last popitem: <<>> or <<[key, file, before, by]>>
    evictedFiles,   \* files popitem has returned
    failed,         \* files whose unlink raised
    atTeardown,     \* files that were cached values when _evict_all started
    unlinked,       \* the calls of unlink made: the file, and the thread that made it
    twice           \* unlink was called on a file it had been called on before

VARIABLES
    loaded,         \* the voice modules _load_voice_modules has imported
    handler,        \* self._handler
    built,          \* the voice GreynirSSMLParser was called with; whether it has warned
    ppc,            \* GreynirSSMLParser: "unbuilt", "failed" (__init__ has raised),
                    \* "new", "feeding" (in transcribe), "done", "error"
    str_stack,      \* self._str_stack
    attr_stack,     \* self._attr_stack
    result,         \* the string transcribe has returned
    perr,           \* the exception transcribe has raised
    fed,            \* the handler calls made so far in this transcribe
    calls,          \* the calls of transcription methods made in this transcribe
    depths,         \* the depth of _str_stack after each handler call
    aborted         \* the depth of _str_stack the transcribe before this one, on the
                    \* same parser, has left when it raised; 0 if it has not raised

parserVars == <<loaded, handler, built,
                ppc, str_stack, attr_stack, result, perr, fed, calls, depths, aborted>>

ttsVars == <<maxsize, clean, data, counter, currsize, expired, disk, nextFile,
             pc, req, val, outcome, invoked, nevict, repeats, wpc, wfile, tpc, tfile,
             lastRet, lastEvict, evictedFiles, failed, atTeardown, unlinked, twice>>

VARIABLES
    arg,            \* the argument of the call of a function of icespeak/transcribe
    ret             \* what the calls have returned

transcriberVars == <<arg, ret>>

restVars == <<parserVars, transcriberVars>>

vars == <<ttsVars, parserVars, transcriberVars>>

cacheVars == <<data, counter, currsize, expired, lastEvict, evictedFiles, lastRet>>
callerVars == <<pc, req, val, outcome, invoked, nevict, repeats>>
workerVars == <<wpc, wfile>>
teardownVars == <<tpc, tfile, atTeardown>>
settingVars == <<maxsize, clean>>
unlinkVars == <<unlinked, twice>>

\* ---------------------------------------------------------------- requests
\* A call text_to_speech(*args, **kwargs): args is <<>> or <<text>>; a keyword
\* argument that is left out is NotPassed / NotPassedNum.
Req(a, t, v, s, f) == [args |-> a, text |-> t, voice |-> v, speed |-> s, fmt |-> f]

NoReq == Req(<<>>, NotPassedNum, NotPassed, NotPassedNum, NotPassed)

Requests ==
    {Req(<<x>>, NotPassedNum, NotPassed, NotPassedNum, NotPassed) : x \in Texts}
    \cup {Req(<<1>>, NotPassedNum, DEFAULT_VOICE, NotPassedNum, NotPassed),
          Req(<<1>>, NotPassedNum, "Nobody", NotPassedNum, NotPassed),
          Req(<<1>>, NotPassedNum, NotPassed, 25, NotPassed)}

\* Calls that the checks of text_to_speech, or the service, may refuse: a voice
\* that is not available, a speed below and above the range, an audio format
\* that the service of the voice does not produce; and one call that is in order.
ErrorRequests ==
    {Req(<<1>>, NotPassedNum, NotPassed, NotPassedNum, NotPassed),
     Req(<<1>>, NotPassedNum, "Nobody", NotPassedNum, NotPassed),
     Req(<<1>>, NotPassedNum, NotPassed, 25, NotPassed),
     Req(<<1>>, NotPassedNum, NotPassed, 4, NotPassed),
     Req(<<1>>, NotPassedNum, NotPassed, NotPassedNum, "pcm")}

\* cachetools.keys.hashkey(*args, **kwargs): the positional arguments followed by
\* the sorted items of the keyword arguments that were passed.
hashkey(r) == [args |-> r.args, kwargs |-> <<r.fmt, r.speed, r.text, r.voice>>]

\* The values the function body sees (defaults of the signature filled in).
ArgText(r) == IF Len(r.args) > 0 THEN r.args[1] ELSE r.text
ArgVoice(r) == IF r.voice = NotPassed THEN DEFAULT_VOICE ELSE r.voice
ArgSpeed(r) == IF r.speed = NotPassedNum THEN DEFAULT_VOICE_SPEED ELSE r.speed
ArgFormat(r) == IF r.fmt = NotPassed THEN DEFAULT_AUDIO_FORMAT ELSE r.fmt

Keys == {hashkey(r) : r \in Requests \cup ErrorRequests}

\* ------------------------------------------------------ collections.Counter
CounterHas(c, k) == \E i \in 1..Len(c) : c[i].key = k

CounterGet(c, k) ==
    IF CounterHas(c, k)
    THEN (CHOOSE e \in {c[i] : i \in 1..Len(c)} : e.key = k).n
    ELSE 0

\* counter[key] -= 1: a key that is missing counts 0 and is added at the end.
CounterDec(c, k) ==
    IF CounterHas(c, k)
    THEN [i \in 1..Len(c) |-> IF c[i].key = k THEN [key |-> k, n |-> c[i].n - 1] ELSE c[i]]
    ELSE Append(c, [key |-> k, n |-> -1])

\* del counter[key]
CounterDel(c, k) == SelectSeq(c, LAMBDA e : e.key # k)

\* max(items, key=itemgetter(1)) as Python computes it: the scan keeps the
\* item it holds unless a later one is strictly greater.
MaxScanLast(c, i, best) ==
    CHOOSE j \in 1..Len(c) :
        /\ \A x \in 1..Len(c) : c[x].n <= c[j].n
        /\ \A x \in 1..Len(c) : c[x].n = c[j].n => x <= j

RECURSIVE MaxScan(_, _, _)
MaxScan(c, i, best) ==
    IF i > Len(c) THEN best
    ELSE MaxScan(c, i + 1, IF c[i].n > c[best].n THEN i ELSE best)

\* Counter.most_common(1) of a non-empty counter: the key of its first maximum.
MostCommon1(c) == c[MaxScan(c, 2, 1)].key

\* ------------------------------------------------------------------ Cache
getsizeof(v) == 1

ValueTooLargeUnlessZero(size, max) == max > 0 /\ size > max

ValueTooLarge(size, max) == size > max

NeedsRoom(cur, size, max) == cur + size > max

EmptyMap == [k \in {} |-> NoFile]

MapPut(m, k, v) == [x \in DOMAIN m \cup {k} |-> IF x = k THEN v ELSE m[x]]

MapDel(m, k) == [x \in DOMAIN m \ {k} |-> m[x]]

CachedFiles == {data[k] : k \in DOMAIN data}

QueueFiles == {expired[i] : i \in 1..Len(expired)} \ {NoneItem}

\* LFUCache.popitem raises KeyError when the counter is empty, and Cache.pop
\* raises it when the chosen key is not in the cache.
PopRaises == counter = <<>> \/ MostCommon1(counter) \notin DOMAIN data

PopitemKeepsEntry(by) ==
    LET k == MostCommon1(counter)
        f == data[k]
    IN  /\ data' = data
        /\ currsize' = currsize - 1
        /\ counter' = SelectSeq(counter, LAMBDA e : e.key # k)
        /\ expired' = IF clean THEN Append(expired, f) ELSE expired
        /\ lastEvict' = <<[key |-> k, file |-> f, before |-> counter, by |-> by]>>
        /\ evictedFiles' = evictedFiles \cup {f}
        /\ lastRet' = [lastRet EXCEPT ![k] = Evicted]

\* TmpFileLFUCache.popitem, when it does not raise: the least frequently used
\* key leaves the cache and its file is put on the queue if the cache is cleaned.
Popitem(by) ==
    LET k == MostCommon1(counter)
        f == data[k]
    IN  /\ data' = MapDel(data, k)
        /\ currsize' = currsize - getsizeof(f)
        /\ counter' = CounterDel(counter, k)
        /\ expired' = IF clean THEN Append(expired, f) ELSE expired
        /\ lastEvict' = <<[key |-> k, file |-> f, before |-> counter, by |-> by]>>
        /\ evictedFiles' = evictedFiles \cup {f}
        /\ lastRet' = [lastRet EXCEPT ![k] = Evicted]

\* Path.unlink(missing_ok=True): a missing file is no error, a file that is
\* there is removed or the operating system refuses (PermissionError).
UnlinkOutcomes(f) == IF f \in disk THEN {"removed", "error"} ELSE {"missing"}

\* ------------------------------------------------------------------- Init
\* ------------------------------------------------------- voice modules
\* The modules of icespeak/voices with the voices they declare.  A module
\* whose import raises (no API key, no SDK) is left out by
\* _load_voice_modules.
VoiceModules == {"Azure", "Google"}

ModuleVoices(m) == IF m = "Azure" THEN VOICES ELSE {"Anna"}

\* VOICES of tts.py: the voices of the modules that were imported
LoadedVoices(ms) == UNION {ModuleVoices(m) : m \in ms}

\* VOICES[voice]["service"]
ServiceOf(v) == CHOOSE m \in VoiceModules : v \in ModuleVoices(m)

\* getattr(m, TRANSCRIBER_CLASS, DefaultTranscriber)
ModuleTranscriber(m) == IF m = "Azure" THEN "Azure.Transcriber" ELSE "DefaultTranscriber"

InitCache ==
    /\ maxsize \in 0..MaxCacheSize
    /\ clean \in BOOLEAN
    /\ data = EmptyMap
    /\ counter = <<>>
    /\ currsize = 0
    /\ expired = <<>>
    /\ disk = {}
    /\ nextFile = 1
    /\ pc = [t \in Threads |-> "idle"]
    /\ req = [t \in Threads |-> NoReq]
    /\ val = [t \in Threads |-> NoFile]
    /\ outcome = [t \in Threads |-> "none"]
    /\ invoked = [t \in Threads |-> FALSE]
    /\ nevict = [t \in Threads |-> 0]
    /\ repeats = [t \in Threads |-> FALSE]
    /\ wpc = IF clean THEN "get" ELSE "absent"
    /\ wfile = NoFile
    /\ tpc = "running"
    /\ tfile = NoFile
    /\ lastRet = [k \in Keys |-> NoFile]
    /\ lastEvict = <<>>
    /\ evictedFiles = {}
    /\ failed = {}
    /\ atTeardown = {}
    /\ unlinked = {}
    /\ twice = FALSE

\* No transcribe has been called.
InitTranscribe ==
    /\ str_stack = <<>>
    /\ attr_stack = <<>>
    /\ result = <<>>
    /\ perr = ""
    /\ fed = <<>>
    /\ calls = <<>>
    /\ depths = <<>>
    /\ aborted = 0

\* The voice modules of DEFAULT_VOICE are loaded and GreynirSSMLParser() has
\* returned a parser.
InitBuilt ==
    /\ InitTranscribe
    /\ loaded = {ServiceOf(DEFAULT_VOICE)}
    /\ handler = ModuleTranscriber(ServiceOf(DEFAULT_VOICE))
    /\ built = [voice |-> DEFAULT_VOICE, warned |-> FALSE]
    /\ ppc = "new"

\* No function of icespeak/transcribe has been called.
NoCall == arg = <<>> /\ ret = <<>>

Init == InitCache /\ InitBuilt /\ NoCall

\* ------------------------------------------------- text_to_speech (cached)
\* A caller thread calls text_to_speech(*args, **kwargs).
Begin(t, r) ==
    /\ tpc = "running"
    /\ pc[t] = "idle"
    /\ nextFile <= MaxFiles
    /\ -CounterGet(counter, hashkey(r)) < MaxFreq
    /\ pc' = [pc EXCEPT ![t] = "lookup"]
    /\ req' = [req EXCEPT ![t] = r]
    /\ val' = [val EXCEPT ![t] = NoFile]
    /\ outcome' = [outcome EXCEPT ![t] = "none"]
    /\ invoked' = [invoked EXCEPT ![t] = FALSE]
    /\ nevict' = [nevict EXCEPT ![t] = 0]
    /\ repeats' = [repeats EXCEPT ![t] = (outcome[t] = "BackendError" /\ r = req[t])]
    /\ UNCHANGED <<cacheVars, disk, nextFile, workerVars, teardownVars,
                   settingVars, restVars, unlinkVars, failed>>

LookupAlwaysMisses(t) ==
    /\ pc[t] = "lookup"
    /\ pc' = [pc EXCEPT ![t] = "call"]
    /\ UNCHANGED <<cacheVars, req, repeats, val, outcome, invoked, nevict, disk, nextFile,
                   workerVars, teardownVars, settingVars, restVars,
                   unlinkVars, failed>>

\* wrapper: k = key(*args, **kwargs); try: return cache[k]; except KeyError: pass
\* LFUCache.__getitem__ counts the use of a key that is found.
Lookup(t) ==
    LET k == hashkey(req[t]) IN
    /\ pc[t] = "lookup"
    /\ IF k \in DOMAIN data
       THEN /\ val' = [val EXCEPT ![t] = data[k]]
            /\ counter' = CounterDec(counter, k)
            /\ outcome' = [outcome EXCEPT ![t] = "hit"]
            /\ pc' = [pc EXCEPT ![t] = "return"]
       ELSE /\ pc' = [pc EXCEPT ![t] = "call"]
            /\ UNCHANGED <<val, counter, outcome>>
    /\ UNCHANGED <<data, currsize, expired, lastEvict, evictedFiles, lastRet,
                   req, repeats, invoked, nevict, disk, nextFile, workerVars,
                   teardownVars, settingVars, restVars,
                   unlinkVars, failed>>

\* The body of text_to_speech up to the call of the service function.
CallWithoutChecks(t) ==
    /\ pc[t] = "call"
    /\ invoked' = [invoked EXCEPT ![t] = TRUE]
    /\ pc' = [pc EXCEPT ![t] = "backend"]
    /\ UNCHANGED <<cacheVars, req, repeats, val, outcome, nevict, disk, nextFile, workerVars,
                   teardownVars, settingVars, restVars,
                   unlinkVars, failed>>

Call(t) ==
    /\ pc[t] = "call"
    /\ IF ArgVoice(req[t]) \notin VOICES
          \/ ArgSpeed(req[t]) < MIN_SPEED \/ ArgSpeed(req[t]) > MAX_SPEED
       THEN /\ outcome' = [outcome EXCEPT ![t] = "ValueError"]
            /\ pc' = [pc EXCEPT ![t] = "raise"]
            /\ UNCHANGED invoked
       ELSE /\ invoked' = [invoked EXCEPT ![t] = TRUE]
            /\ pc' = [pc EXCEPT ![t] = "backend"]
            /\ UNCHANGED outcome
    /\ UNCHANGED <<cacheVars, req, repeats, val, nevict, disk, nextFile, workerVars,
                   teardownVars, settingVars, restVars,
                   unlinkVars, failed>>

BackendRetries(t) ==
    /\ pc[t] = "backend"
    /\ \/ /\ val' = [val EXCEPT ![t] = nextFile]
          /\ disk' = disk \cup {nextFile}
          /\ nextFile' = nextFile + 1
          /\ pc' = [pc EXCEPT ![t] = "setitem"]
          /\ UNCHANGED outcome
       \/ /\ outcome[t] # "BackendError"
          /\ outcome' = [outcome EXCEPT ![t] = "BackendError"]
          /\ UNCHANGED <<pc, val, disk, nextFile>>
    /\ UNCHANGED <<cacheVars, req, repeats, invoked, nevict, workerVars, teardownVars,
                   settingVars, restVars, unlinkVars, failed>>

\* The service function returns the path of a new audio file, or raises.
Backend(t) ==
    /\ pc[t] = "backend"
    /\ \/ /\ val' = [val EXCEPT ![t] = nextFile]
          /\ disk' = disk \cup {nextFile}
          /\ nextFile' = nextFile + 1
          /\ pc' = [pc EXCEPT ![t] = "setitem"]
          /\ UNCHANGED outcome
       \/ /\ outcome' = [outcome EXCEPT ![t] = "BackendError"]
          /\ pc' = [pc EXCEPT ![t] = "raise"]
          /\ UNCHANGED <<val, disk, nextFile>>
    /\ UNCHANGED <<cacheVars, req, repeats, invoked, nevict, workerVars, teardownVars,
                   settingVars, restVars, unlinkVars, failed>>

\* wrapper: try: cache[k] = v; except ValueError: pass  # value too large
\* Cache.__setitem__ starts with the size check and the test `key not in data`.
Setitem(t) ==
    LET k == hashkey(req[t]) IN
    /\ pc[t] = "setitem"
    /\ IF ValueTooLarge(getsizeof(val[t]), maxsize)
       THEN /\ outcome' = [outcome EXCEPT ![t] = "computed"]
            /\ pc' = [pc EXCEPT ![t] = "return"]
       ELSE /\ pc' = [pc EXCEPT ![t] =
                        IF k \notin DOMAIN data THEN "makeroom" ELSE "insert"]
            /\ UNCHANGED outcome
    /\ UNCHANGED <<cacheVars, req, repeats, val, invoked, nevict, disk, nextFile,
                   workerVars, teardownVars, settingVars, restVars,
                   unlinkVars, failed>>

\* Cache.__setitem__: while self.__currsize + size > maxsize: self.popitem()
MakeRoom(t) ==
    /\ pc[t] = "makeroom"
    /\ IF NeedsRoom(currsize, getsizeof(val[t]), maxsize)
       THEN IF PopRaises
            THEN /\ outcome' = [outcome EXCEPT ![t] = "KeyError"]
                 /\ pc' = [pc EXCEPT ![t] = "raise"]
                 /\ UNCHANGED <<cacheVars, nevict>>
            ELSE /\ Popitem("caller")
                 /\ nevict' = [nevict EXCEPT ![t] = @ + 1]
                 /\ UNCHANGED <<pc, outcome>>
       ELSE /\ pc' = [pc EXCEPT ![t] = "insert"]
            /\ UNCHANGED <<cacheVars, nevict, outcome>>
    /\ UNCHANGED <<req, repeats, val, invoked, disk, nextFile, workerVars, teardownVars,
                   settingVars, restVars, unlinkVars, failed>>

\* Cache.__setitem__ stores the value and adds its size if the key is new;
\* LFUCache.__setitem__ then counts the key.
Insert(t) ==
    LET k == hashkey(req[t]) IN
    /\ pc[t] = "insert"
    /\ data' = MapPut(data, k, val[t])
    /\ currsize' = currsize + (IF k \in DOMAIN data THEN 0 ELSE getsizeof(val[t]))
    /\ counter' = CounterDec(counter, k)
    /\ outcome' = [outcome EXCEPT ![t] = "stored"]
    /\ pc' = [pc EXCEPT ![t] = "return"]
    /\ UNCHANGED <<expired, lastEvict, evictedFiles, lastRet, req, repeats, val, invoked,
                   nevict, disk, nextFile, workerVars, teardownVars,
                   settingVars, restVars, unlinkVars, failed>>

\* The wrapper returns the value to the caller.
Return(t) ==
    /\ pc[t] = "return"
    /\ lastRet' = [lastRet EXCEPT ![hashkey(req[t])] = val[t]]
    /\ pc' = [pc EXCEPT ![t] = "idle"]
    /\ repeats' = [repeats EXCEPT ![t] = FALSE]
    /\ UNCHANGED <<data, counter, currsize, expired, lastEvict, evictedFiles,
                   req, val, outcome, invoked, nevict, disk, nextFile,
                   workerVars, teardownVars, settingVars, restVars,
                   unlinkVars, failed>>

\* An exception leaves the wrapper and reaches the caller.
Raise(t) ==
    /\ pc[t] = "raise"
    /\ pc' = [pc EXCEPT ![t] = "idle"]
    /\ repeats' = [repeats EXCEPT ![t] = FALSE]
    /\ UNCHANGED <<cacheVars, req, val, outcome, invoked, nevict, disk,
                   nextFile, workerVars, teardownVars, settingVars, restVars,
                   unlinkVars, failed>>

CallerStep(t) ==
    \/ Lookup(t)
    \/ Call(t)
    \/ Backend(t)
    \/ Setitem(t)
    \/ MakeRoom(t)
    \/ Insert(t)
    \/ Return(t)
    \/ Raise(t)

\* ------------------------------------------------------ _cleanup (worker)
WorkerGetDropsFile ==
    /\ tpc # "exited"
    /\ wpc = "get"
    /\ expired # <<>>
    /\ expired' = Tail(expired)
    /\ wpc' = IF Head(expired) = NoneItem THEN "stopped" ELSE "get"
    /\ UNCHANGED <<data, counter, currsize, lastEvict, evictedFiles, lastRet,
                   callerVars, disk, nextFile, teardownVars, settingVars, restVars,
                   unlinkVars, failed,
                   wfile>>

\* A call of Path.unlink on the file f is made, by the thread named.
Unlinks(f, by) ==
    /\ unlinked' = unlinked \cup {[file |-> f, by |-> by]}
    /\ twice' = (twice \/ \E u \in unlinked : u.file = f)

\* The loop of _cleanup if None did not end it.
WorkerGetPastNone ==
    /\ tpc # "exited"
    /\ wpc = "get"
    /\ expired # <<>>
    /\ expired' = Tail(expired)
    /\ IF Head(expired) = NoneItem
       THEN wpc' = "get" /\ UNCHANGED wfile
       ELSE wpc' = "unlink" /\ wfile' = Head(expired)
    /\ UNCHANGED <<data, counter, currsize, lastEvict, evictedFiles, lastRet,
                   callerVars, disk, nextFile, teardownVars, settingVars, restVars,
                   unlinkVars, failed>>

\* while audiofile := _EXPIRED_QUEUE.get(): ...   (None ends the loop)
WorkerGet ==
    /\ tpc # "exited"
    /\ wpc = "get"
    /\ expired # <<>>
    /\ expired' = Tail(expired)
    /\ IF Head(expired) = NoneItem
       THEN wpc' = "stopped" /\ UNCHANGED wfile
       ELSE wpc' = "unlink" /\ wfile' = Head(expired)
    /\ UNCHANGED <<data, counter, currsize, lastEvict, evictedFiles, lastRet,
                   callerVars, disk, nextFile, teardownVars, settingVars, restVars,
                   unlinkVars, failed>>

\* audiofile.unlink(missing_ok=True); an exception ends the thread.
WorkerUnlink ==
    /\ tpc # "exited"
    /\ wpc = "unlink"
    /\ \E o \in UnlinkOutcomes(wfile) :
          IF o = "error"
          THEN /\ wpc' = "crashed"
               /\ failed' = failed \cup {wfile}
               /\ UNCHANGED <<disk, wfile>>
          ELSE /\ wpc' = "get"
               /\ disk' = disk \ {wfile}
               /\ wfile' = NoFile
               /\ UNCHANGED failed
    /\ Unlinks(wfile, "worker")
    /\ UNCHANGED <<cacheVars, callerVars, nextFile, teardownVars, settingVars, restVars>>

Worker == WorkerGet \/ WorkerUnlink

\* ---------------------------------------------------- _evict_all (atexit)
\* Runs at interpreter exit, after the non-daemon threads have ended.
EvictAllStart ==
    /\ clean
    /\ tpc = "running"
    /\ \A t \in Threads : pc[t] = "idle"
    /\ expired' = Append(expired, NoneItem)
    /\ atTeardown' = CachedFiles
    /\ tpc' = "evicting"
    /\ UNCHANGED <<data, counter, currsize, lastEvict, evictedFiles, lastRet,
                   callerVars, workerVars, disk, nextFile, tfile, settingVars, restVars, unlinkVars,
                   failed>>

\* while _AUDIO_CACHE.currsize > 0: _AUDIO_CACHE.popitem()...
\* An exception ends the loop (except Exception around the while).
EvictAllPop ==
    /\ tpc = "evicting"
    /\ IF currsize > 0
       THEN IF PopRaises
            THEN tpc' = "join" /\ UNCHANGED <<cacheVars, tfile>>
            ELSE /\ Popitem("teardown")
                 /\ tfile' = data[MostCommon1(counter)]
                 /\ tpc' = "unlink"
       ELSE tpc' = "join" /\ UNCHANGED <<cacheVars, tfile>>
    /\ UNCHANGED <<callerVars, workerVars, disk, nextFile, atTeardown,
                   settingVars, restVars, unlinkVars, failed>>

\* ...[1].unlink(missing_ok=True)
EvictAllUnlink ==
    /\ tpc = "unlink"
    /\ \E o \in UnlinkOutcomes(tfile) :
          IF o = "error"
          THEN /\ tpc' = "join"
               /\ failed' = failed \cup {tfile}
               /\ UNCHANGED disk
          ELSE /\ tpc' = "evicting"
               /\ disk' = disk \ {tfile}
               /\ UNCHANGED failed
    /\ tfile' = NoFile
    /\ Unlinks(tfile, "teardown")
    /\ UNCHANGED <<cacheVars, callerVars, workerVars, nextFile, atTeardown,
                   settingVars, restVars>>

\* _cleanup_thread.join(0.1) returns when the thread has ended or after 0.1 s;
\* the handler returns and the process exits, which ends the daemon thread.
EvictAllJoin ==
    /\ tpc = "join"
    /\ tpc' = "exited"
    /\ UNCHANGED <<cacheVars, callerVars, workerVars, disk, nextFile, tfile,
                   atTeardown, settingVars, restVars, unlinkVars, failed>>

EvictAll == EvictAllStart \/ EvictAllPop \/ EvictAllUnlink \/ EvictAllJoin

\* ------------------------------------------- DefaultTranscriber (handler)
\* str.replace(old, new): from the left, occurrences that do not overlap.
RECURSIVE Replace(_, _, _)
Replace(s, old, new) ==
    IF Len(s) < Len(old) THEN s
    ELSE IF SubSeq(s, 1, Len(old)) = old
         THEN new \o Replace(SubSeq(s, Len(old) + 1, Len(s)), old, new)
         ELSE <<Head(s)>> \o Replace(Tail(s), old, new)

\* The words are written without the letters that are not ASCII.
DANGER_SYMBOLS ==
    << << <<"&">>, <<" og ">> >>,
       << <<"<", "=">>, <<" minna eda jafnt og ">> >>,
       << <<"<">>, <<" minna en ">> >>,
       << <<">", "=">>, <<" staerra eda jafnt og ">> >>,
       << <<">">>, <<" staerra en ">> >> >>

\* for symb, new in cls._DANGER_SYMBOLS: txt = txt.replace(symb, new)
RECURSIVE ReplaceEach(_, _, _)
ReplaceEach(txt, pairs, i) ==
    IF i > Len(pairs) THEN txt
    ELSE ReplaceEach(Replace(txt, pairs[i][1], pairs[i][2]), pairs, i + 1)

DangerSymbolsKept(txt) == txt

\* _transcribe_method returns "" for the text ""
danger_symbols(txt) == IF txt = <<>> THEN <<>> ELSE ReplaceEach(txt, DANGER_SYMBOLS, 1)

\* The attributes of the handler class the markup of the model names: four
\* transcription methods (classmethods) and one attribute that is no method.
Methods == {"number", "vbreak", "paragraph", "sentence"}
VBREAK_STRENGTHS == {"none", "x-weak", "weak", "medium", "strong", "x-strong"}
HandlerAttributes == Methods \cup {"VBREAK_STRENGTHS"}

\* The call transf(*args, **kw) of the method named fn: the exception it
\* raises ("" if none).  number is wrapped by _transcribe_method, which takes
\* the text as a required argument and calls number only for a text that is
\* not ""; paragraph and sentence are wrapped in the same way and take the
\* text only; vbreak takes time and strength, both optional.
TransfRaises(fn, args, kw) ==
    IF fn = "number"
    THEN IF Len(args) # 1 THEN "TypeError"
         ELSE IF args[1] = <<>> THEN ""
         ELSE IF DOMAIN kw \subseteq {"case", "gender", "one_hundred"} THEN ""
         ELSE "TypeError"
    ELSE IF fn \in {"paragraph", "sentence"}
    THEN IF Len(args) # 1 THEN "TypeError"
         ELSE IF args[1] = <<>> THEN ""
         ELSE IF DOMAIN kw = {} THEN ""
         ELSE "TypeError"
    ELSE IF Len(args) > 1 \/ (Len(args) = 1 /\ "time" \in DOMAIN kw) THEN "TypeError"
         ELSE IF ~(DOMAIN kw \subseteq {"time", "strength"}) THEN "TypeError"
         ELSE IF /\ (Len(args) = 0 \/ args[1] = <<>>)
                 /\ ("time" \notin DOMAIN kw \/ kw["time"] = "")
                 /\ "strength" \in DOMAIN kw /\ kw["strength"] # ""
                 /\ kw["strength"] \notin VBREAK_STRENGTHS
              THEN "AssertionError"
              ELSE ""

KwText(kw) == IF "gender" \in DOMAIN kw THEN <<"gender=", kw["gender"]>> ELSE <<>>

\* The string the call returns, every element written without speech markup.
TransfResultPlain(fn, args, kw) ==
    IF fn = "vbreak" THEN <<>>
    ELSE IF args[1] = <<>> THEN <<>>
    ELSE IF fn = "number" THEN <<"number(">> \o args[1] \o KwText(kw) \o <<")">>
    ELSE args[1]

\* The string the call returns.  The words number makes of a text are written
\* number( text gender= g ); vbreak returns a <break .../> element, paragraph
\* <p>text</p> and sentence <s>text</s>.
TransfResult(fn, args, kw) ==
    IF fn = "number"
    THEN IF args[1] = <<>> THEN <<>>
         ELSE <<"number(">> \o args[1] \o KwText(kw) \o <<")">>
    ELSE IF fn = "paragraph"
    THEN IF args[1] = <<>> THEN <<>> ELSE <<"<p>">> \o args[1] \o <<"</p>">>
    ELSE IF fn = "sentence"
    THEN IF args[1] = <<>> THEN <<>> ELSE <<"<s>">> \o args[1] \o <<"</s>">>
    ELSE LET time == IF Len(args) = 1 THEN args[1]
                     ELSE IF "time" \in DOMAIN kw /\ kw["time"] # "" THEN <<kw["time"]>>
                     ELSE <<>>
             strength == IF "strength" \in DOMAIN kw /\ kw["strength"] # ""
                         THEN <<kw["strength"]>> ELSE <<>>
         IN  IF time # <<>> THEN <<"<break time=">> \o time \o <<"/>">>
             ELSE IF strength # <<>> THEN <<"<break strength=">> \o strength \o <<"/>">>
             ELSE <<"<break />">>

\* ------------------------------------------------------- time of day
\* number_to_text(n, case=..., gender=...) of icespeak/transcribe/num.py: the
\* words of the number, written as one word that names the number.
number_to_text(n, case, gender) == <<"<" \o ToString(n) \o ":" \o case \o ":" \o gender \o ">">>

NoSecond == -1          \* second is None

Join(t) == t            \* " ".join(t): the words, in order

\* The hour branches with the night tested before midnight.
time_words_night_first(h, m, s) ==
    LET suffix == IF 0 <= h /\ h <= 5 THEN <<"um nott">>
                  ELSE IF h = 0 /\ m = 0 THEN <<"a midnaetti">>
                  ELSE IF h = 12 /\ m = 0 THEN <<"a hadegi">>
                  ELSE <<>>
    IN  number_to_text(h, "nf", "hk")
        \o (IF m > 0 THEN (IF m < 10 THEN <<"null">> ELSE <<>>) \o number_to_text(m, "nf", "hk")
            ELSE <<>>)
        \o suffix

\* Hours, minutes, seconds and suffix, as _time_to_text and the _time_fmt of
\* DefaultTranscriber.time both compute them; s is NoSecond or a number.
time_words(h, m, s) ==
    LET hour == IF h = 0 /\ m = 0 THEN 12 ELSE h
        suffix == IF h = 0 /\ m = 0 THEN <<"a midnaetti">>
                  ELSE IF 0 <= h /\ h <= 5 THEN <<"um nott">>
                  ELSE IF h = 12 /\ m = 0 THEN <<"a hadegi">>
                  ELSE <<>>
    IN  number_to_text(hour, "nf", "hk")
        \o (IF m > 0 THEN (IF m < 10 THEN <<"null">> ELSE <<>>) \o number_to_text(m, "nf", "hk")
            ELSE <<>>)
        \o (IF s # NoSecond /\ s > 0
            THEN (IF s < 10 THEN <<"null">> ELSE <<>>) \o number_to_text(s, "nf", "hk")
            ELSE <<>>)
        \o suffix

time_to_text(hour, minute, second) == Join(time_words(hour, minute, second))

\* int(digits) of one or two decimal digits
DigitOf(c) == CHOOSE d \in 0..9 : ToString(d) = c

IntOf(ds) == IF Len(ds) = 1 THEN DigitOf(ds[1]) ELSE 10 * DigitOf(ds[1]) + DigitOf(ds[2])

\* datetime.time(h, m).strftime("%H:%M")
Strftime(h, m) == <<ToString(h \div 10), ToString(h % 10), ":",
                    ToString(m \div 10), ToString(m % 10)>>

\* _TIME_REGEX.sub(_time_fmt, txt) for a text of five characters that the
\* pattern matches as a whole: two digits of the hour, the colon, the two
\* digits of the minute, no "klukkan" before it and no seconds.
time_fmt(txt) ==
    LET h == IntOf(SubSeq(txt, 1, 2))
        m == IntOf(SubSeq(txt, 4, 5))
    IN  Join(time_words(h, m, NoSecond))

Hours == 0..23
Minutes == 0..59

\* DefaultTranscriber.time(txt) for the text of a time of day
TimeRegex ==
    /\ "regex" \notin DOMAIN ret
    /\ ret' = [p \in DOMAIN ret \cup {"regex"} |->
                  IF p = "regex" THEN time_fmt(Strftime(arg.hour, arg.minute)) ELSE ret[p]]
    /\ UNCHANGED <<arg, ttsVars, parserVars>>

\* token_transcribe for a token of kind TIME, whose val is (h, m, s) with s = 0
\* for a time without seconds: _time_to_text(h, m, s or None)
TimeToken ==
    /\ "token" \notin DOMAIN ret
    /\ ret' = [p \in DOMAIN ret \cup {"token"} |->
                  IF p = "token" THEN time_to_text(arg.hour, arg.minute, NoSecond) ELSE ret[p]]
    /\ UNCHANGED <<arg, ttsVars, parserVars>>

\* --------------------------------------------------------------- dates
\* number_to_ordinal(n, gender="kk", case=..., number="et") and
\* year_to_text(year) of icespeak/transcribe/num.py: the words of the number,
\* written as one word that names the number.
number_to_ordinal(n, case) == <<"<" \o ToString(n) \o ".:" \o case \o ">">>

year_to_text(year) == <<"<year " \o ToString(year) \o ">">>

_MONTH_ABBREVS == <<<<"j", "a", "n">>, <<"f", "e", "b">>, <<"m", "a", "r">>,
                    <<"a", "p", "r">>, <<"m", "a", "i">>, <<"j", "u", "n">>,
                    <<"j", "u", "l">>, <<"a", "g", "u">>, <<"s", "e", "p">>,
                    <<"o", "k", "t">>, <<"n", "o", "v">>, <<"d", "e", "s">>>>

_MONTH_NAMES == <<"januar", "februar", "mars", "april", "mai", "juni",
                  "juli", "agust", "september", "oktober", "november", "desember">>

NoYear == -1            \* year is None
NoText == <<>>          \* the text a call that raised did not return

\* int(ds) of a text of decimal digits
RECURSIVE Int_(_)
Int_(ds) == IF ds = <<>> THEN 0
            ELSE 10 * Int_(SubSeq(ds, 1, Len(ds) - 1)) + DigitOf(ds[Len(ds)])

\* str.isdecimal()
isdecimal(txt) == txt # <<>> /\ \A i \in 1..Len(txt) : txt[i] \in {ToString(d) : d \in 0..9}

\* tuple.index(x), counted from 0; -1 stands for ValueError
index(tuple, x) ==
    IF \E i \in 1..Len(tuple) : tuple[i] = x
    THEN (CHOOSE i \in 1..Len(tuple) : tuple[i] = x) - 1
    ELSE -1

\* tuple[i] of Python: a negative index counts from the end, an index
\* outside -len..len-1 raises IndexError
InRange(tuple, i) == -Len(tuple) <= i /\ i < Len(tuple)

Subscript(tuple, i) == IF i < 0 THEN tuple[i + Len(tuple) + 1] ELSE tuple[i + 1]

\* _date_to_text(year=..., month=..., day=..., case=...)
_date_to_text(year, month, day, case) ==
    IF ~InRange(_MONTH_NAMES, month - 1)
    THEN [raised |-> "IndexError", txt |-> NoText]
    ELSE [raised |-> "",
          txt |-> (IF day # 0 THEN number_to_ordinal(day, case) ELSE <<>>)
                  \o <<Subscript(_MONTH_NAMES, month - 1)>>
                  \o (IF year # NoYear /\ year # 0 THEN year_to_text(year) ELSE <<>>)]

\* The texts that _DATE_REGEX matches as a whole, by the three alternatives of
\* the pattern: d, mon and y are the texts of the groups day, month and
\* year, y = <<>> if the year is not written.
Padded(n) == {<<ToString(n)>>, <<"0", ToString(n)>>}

DayTexts == Padded(0) \cup Padded(1) \cup Padded(7) \cup {<<"2", "5">>}

MonthNumberTexts ==
    Padded(0) \cup Padded(1) \cup Padded(3)
    \cup {<<"1", "2">>, <<"1", "3">>, <<"8", "8">>}

\* Month names as the case-insensitive pattern accepts them.
MonthNameTexts ==
    {<<"j", "a", "n">>, <<"J", "a", "n">>, <<"J", "A", "N">>,
     <<"d", "e", "s", "e", "m", "b", "e", "r">>, <<"D", "e", "s", "e", "m", "b", "e", "r">>,
     <<"s", "e", "p", "t">>, <<"O", "k", "t">>}

YearTexts == {<<"1", "9", "9", "9">>, <<"9", "9">>, <<"0", "0", "9", "9">>, <<"0">>}

DateTexts ==
    [form : {"y-m-d", "d/m/y"}, d : DayTexts, mon : MonthNumberTexts, y : YearTexts]
    \cup [form : {"d. month y"}, d : DayTexts, mon : MonthNameTexts, y : YearTexts \cup {<<>>}]

\* The text as it is written
DateText(a) ==
    CASE a.form = "y-m-d" -> a.y \o <<"-">> \o a.mon \o <<"-">> \o a.d
      [] a.form = "d/m/y" -> a.d \o <<"/">> \o a.mon \o <<"/">> \o a.y
      [] a.form = "d. month y" ->
            a.d \o <<".", " ">> \o a.mon \o (IF a.y = <<>> THEN <<>> ELSE <<" ">> \o a.y)

\* DefaultTranscriber.date(txt, case=...) for a text that the pattern matches
\* as a whole
date(a, case) ==
    LET d == a.d
        mon == a.mon
        y == a.y
    IN  IF mon # <<>> /\ d # <<>>
        THEN IF ~isdecimal(mon) /\ index(_MONTH_ABBREVS, SubSeq(mon, 1, 3)) = -1
             THEN [raised |-> "ValueError", txt |-> NoText]
             ELSE LET m == IF isdecimal(mon) THEN Int_(mon)
                           ELSE index(_MONTH_ABBREVS, SubSeq(mon, 1, 3)) + 1
                  IN  _date_to_text(IF y # <<>> THEN Int_(y) ELSE NoYear, m, Int_(d), case)
        ELSE [raised |-> "", txt |-> DateText(a)]

Date ==
    /\ ret = <<>>
    /\ ret' = date(arg, "nf")
    /\ UNCHANGED <<arg, ttsVars, parserVars>>

\* ---------------------------------------------- amounts and measurements
\* str(n) of an int that is not negative: its decimal digits
RECURSIVE StrInt(_)
StrInt(n) == IF n < 10 THEN <<ToString(n)>> ELSE StrInt(n \div 10) \o <<ToString(n % 10)>>

\* A number as it is written in a text: the whole part and the digits after
\* the decimal comma (<<>> if it is written without a comma).
Written(w) ==
    StrInt(w.whole) \o (IF w.frac = <<>> THEN <<>>
                        ELSE <<",">> \o [k \in 1..Len(w.frac) |-> ToString(w.frac[k])])

RECURSIVE StripZeros(_)
StripZeros(ds) ==
    IF ds # <<>> /\ ds[Len(ds)] = 0 THEN StripZeros(SubSeq(ds, 1, Len(ds) - 1)) ELSE ds

\* float(txt) of the written number, after the comma is replaced by a point:
\* the value, as its whole part and the digits of its fraction
Float(w) == [whole |-> w.whole, frac |-> StripZeros(w.frac)]

\* str(x) of a float: always with a point, ".0" for a whole value
StrFloat(x) ==
    StrInt(x.whole) \o <<".">>
    \o (IF x.frac = <<>> THEN <<"0">> ELSE [k \in 1..Len(x.frac) |-> ToString(x.frac[k])])

endswith(sn, suffix) ==
    Len(sn) >= Len(suffix) /\ SubSeq(sn, Len(sn) - Len(suffix) + 1, Len(sn)) = suffix

\* _is_plural(num), sn being str(num)
is_plural(sn) == ~(endswith(sn, <<"1">>) /\ ~endswith(sn, <<"1", "1">>))

FracDigits == {0, 1, 6}

WrittenNumbers ==
    [whole : 0..MaxWritten,
     frac : UNION {[1..k -> FracDigits] : k \in 0..MaxFracLen}]

Returned(p, v) == ret' = [q \in DOMAIN ret \cup {p} |-> IF q = p THEN v ELSE ret[q]]

\* token_transcribe for a token of kind AMOUNT: num is the number of the
\* token's val, which the tokenizer gives as an int for a number written
\* without a decimal part and as a float otherwise.
Amount ==
    /\ "amount" \notin DOMAIN ret
    /\ LET sn == IF arg.frac = <<>> THEN StrInt(arg.whole) ELSE StrFloat(Float(arg))
       IN  Returned("amount", IF is_plural(sn) THEN "ft" ELSE "et")
    /\ UNCHANGED <<arg, ttsVars, parserVars>>

\* token_transcribe for a token of kind MEASUREMENT: num is the float of the
\* number at the head of token.txt.
Measurement ==
    /\ "measurement" \notin DOMAIN ret
    /\ Returned("measurement", IF is_plural(StrFloat(Float(arg))) THEN "ft" ELSE "et")
    /\ UNCHANGED <<arg, ttsVars, parserVars>>

\* -------------------------------------------------------- token_transcribe
\* The fields of TranscriptionOptions and their defaults.
Flags == {"emails", "dates", "years", "domains", "urls", "amounts", "measurements",
          "percentages", "numbers", "ordinals"}

TranscriptionOptions == [f \in Flags |-> f \notin {"numbers", "ordinals"}]

\* Tokens the tokenizer makes, one of each kind that an option names (three
\* kinds of date).  The text of a token is given by its parts; a URL is
\* written with its protocol or, like www.mbl.is, without.
Tokens ==
    {[kind |-> k, txt |-> <<k>>] :
        k \in {"DATE", "DATEABS", "DATEREL", "YEAR", "EMAIL", "DOMAIN", "AMOUNT",
               "MEASUREMENT", "PERCENT", "NUMBER", "ORDINAL"}}
    \cup {[kind |-> "URL", txt |-> <<"https", "://", "mbl.is">>],
          [kind |-> "URL", txt |-> <<"www.mbl.is">>]}

\* txt.partition("://")
partition(txt) ==
    IF \E i \in 1..Len(txt) : txt[i] = "://"
    THEN LET i == CHOOSE i \in 1..Len(txt) :
                     txt[i] = "://" /\ \A j \in 1..(i - 1) : txt[j] # "://"
         IN  <<SubSeq(txt, 1, i - 1), <<"://">>, SubSeq(txt, i + 1, Len(txt))>>
    ELSE <<txt, <<>>, <<>>>>

\* What a method of the transcriber makes of a text: the text, marked with
\* the name of the method.
Spoken_(method, txt) == <<method \o "(">> \o txt \o <<")">>

\* token.txt after the body of the loop of token_transcribe, for a token of
\* one of these kinds: the branches in their order, each with its option.
token_txt(token, opt) ==
    LET k == token.kind
        t == token.txt
    IN  IF k = "NUMBER" /\ opt["numbers"] THEN Spoken_("float", t)
        ELSE IF k = "ORDINAL" /\ opt["ordinals"] THEN Spoken_("ordinal", t)
        ELSE IF k = "DATE" /\ opt["dates"] THEN Spoken_("_date_to_text", t)
        ELSE IF k = "YEAR" /\ opt["years"] THEN Spoken_("year", t)
        ELSE IF k = "DATEABS" /\ opt["dates"] THEN Spoken_("_date_to_text", t)
        ELSE IF k = "DATEREL" /\ opt["dates"] THEN Spoken_("_date_to_text", t)
        ELSE IF k = "EMAIL" /\ opt["emails"] THEN Spoken_("email", t)
        ELSE IF k = "DOMAIN" /\ opt["domains"] THEN Spoken_("domain", t)
        ELSE IF k = "URL" /\ opt["urls"]
        THEN IF partition(t)[3] # <<>>
             THEN Spoken_("spell", partition(t)[1]) \o Spoken_("domain", partition(t)[3])
             ELSE t
        ELSE IF k = "AMOUNT" /\ opt["amounts"]
        THEN Spoken_("float", t) \o Spoken_("currency", t)
        ELSE IF k = "PERCENT" /\ opt["percentages"] THEN Spoken_("float", t) \o <<" prosent">>
        ELSE IF k = "MEASUREMENT" /\ opt["measurements"]
        THEN Spoken_("float", t) \o Spoken_("unit", t)
        ELSE t

\* DefaultTranscriber.token_transcribe(text, options=...) for a text that is
\* one token
TokenTranscribe ==
    /\ ret = <<>>
    /\ ret' = [txt |-> token_txt(arg.token, arg.options)]
    /\ UNCHANGED <<arg, ttsVars, parserVars>>

\* ----------------------------------------------------- GreynirSSMLParser
NoAttrs == <<>>

\* GreynirSSMLParser(voice): __init__
Construct(voice) ==
    /\ ppc = "unbuilt"
    /\ IF LoadedVoices(loaded) = {}
       THEN /\ ppc' = "failed" /\ perr' = "RuntimeError"
            /\ built' = [voice |-> voice, warned |-> FALSE]
            /\ handler' = handler
       ELSE LET v == IF voice \in LoadedVoices(loaded) THEN voice ELSE DEFAULT_VOICE
            IN  /\ built' = [voice |-> voice, warned |-> voice \notin LoadedVoices(loaded)]
                /\ IF v \in LoadedVoices(loaded)
                   THEN /\ ppc' = "new" /\ perr' = ""
                        /\ handler' = ModuleTranscriber(ServiceOf(v))
                   ELSE /\ ppc' = "failed" /\ perr' = "KeyError"
                        /\ handler' = handler
    /\ UNCHANGED <<loaded, str_stack, attr_stack, result, fed, calls, depths, aborted,
                   ttsVars, transcriberVars>>

\* dict(attrs) of a greynir tag: a method that takes a text, a method that
\* takes none, no type, an empty type, a name the handler does not have and
\* the name of an attribute that is no method.
AttrMaps ==
    {[type |-> "number", gender |-> "kk"],
     [type |-> "vbreak", strength |-> "weak"],
     NoAttrs,
     [type |-> ""],
     [type |-> "nope"],
     [type |-> "VBREAK_STRENGTHS"]}

\* The data of a handle_data call: a letter, and every danger symbol.
DataTexts == {<<"a">>, <<"<", "=", "&", ">", "=", "<", ">">>}

Tok(k, tag, attrs, d) == [kind |-> k, tag |-> tag, attrs |-> attrs, data |-> d]

LookupRaisesIfMissing(dattrs) ==
    IF "type" \notin DOMAIN dattrs THEN "KeyError" ELSE ""

\* t = dattrs.pop("type"); assert t; transf = getattr(self._handler, t);
\* assert ismethod(transf): the exception this raises ("" if none).
LookupRaises(dattrs) ==
    IF "type" \notin DOMAIN dattrs THEN "KeyError"
    ELSE IF dattrs["type"] = "" THEN "AssertionError"
    ELSE IF dattrs["type"] \notin HandlerAttributes THEN "AttributeError"
    ELSE IF dattrs["type"] \notin Methods THEN "AssertionError"
    ELSE ""

\* dattrs after dattrs.pop("type")
Kwargs(dattrs) == [n \in DOMAIN dattrs \ {"type"} |-> dattrs[n]]

Top(stack) == stack[Len(stack)]

Pop(stack) == SubSeq(stack, 1, Len(stack) - 1)

SetTop(stack, s) == [stack EXCEPT ![Len(stack)] = s]

\* self._str_stack[-1] += s
AddToTop(stack, s) == [stack EXCEPT ![Len(stack)] = @ \o s]

Upper(c) == IF c = "a" THEN "A" ELSE IF c = "number(" THEN "Number(" ELSE c

\* out[0].upper() + out[1:] if out else out
Capitalize(out) == IF out = <<>> THEN out ELSE <<Upper(Head(out))>> \o Tail(out)

Raised(e) == ppc' = "error" /\ perr' = e

Handled(tok) ==
    /\ fed' = Append(fed, tok)
    /\ depths' = Append(depths, Len(str_stack'))
    /\ UNCHANGED <<result, aborted, loaded, handler, built, ttsVars, transcriberVars>>

\* transcribe without the two calls of clear()
TranscribeKeepsStacks ==
    /\ ppc \in {"new", "done", "error"}
    /\ ppc' = "feeding"
    /\ str_stack' = Append(str_stack, <<>>)
    /\ attr_stack' = attr_stack
    /\ result' = <<>>
    /\ perr' = ""
    /\ fed' = <<>>
    /\ calls' = <<>>
    /\ depths' = <<>>
    /\ aborted' = IF ppc = "error" THEN Len(str_stack) ELSE 0
    /\ UNCHANGED <<loaded, handler, built, ttsVars, transcriberVars>>

\* transcribe, up to self.feed(voice_string)
Transcribe ==
    /\ ppc \in {"new", "done", "error"}
    /\ ppc' = "feeding"
    /\ str_stack' = << <<>> >>
    /\ attr_stack' = <<>>
    /\ result' = <<>>
    /\ perr' = ""
    /\ fed' = <<>>
    /\ calls' = <<>>
    /\ depths' = <<>>
    /\ aborted' = IF ppc = "error" THEN Len(str_stack) ELSE 0
    /\ UNCHANGED <<loaded, handler, built, ttsVars, transcriberVars>>

\* handle_starttag without the push on _attr_stack
handle_starttag_one_push(tag, attrs) ==
    /\ ppc = "feeding"
    /\ Len(fed) < MaxTokens
    /\ IF tag = GSSML_TAG
       THEN /\ str_stack' = Append(str_stack, <<>>)
            /\ attr_stack' = attr_stack
       ELSE UNCHANGED <<str_stack, attr_stack>>
    /\ Handled(Tok("start", tag, attrs, <<>>))
    /\ UNCHANGED <<ppc, perr, calls>>

handle_starttag(tag, attrs) ==
    /\ ppc = "feeding"
    /\ Len(fed) < MaxTokens
    /\ IF tag = GSSML_TAG
       THEN /\ str_stack' = Append(str_stack, <<>>)
            /\ attr_stack' = Append(attr_stack, attrs)
       ELSE UNCHANGED <<str_stack, attr_stack>>
    /\ Handled(Tok("start", tag, attrs, <<>>))
    /\ UNCHANGED <<ppc, perr, calls>>

handle_data_unescaped(d) ==
    /\ ppc = "feeding"
    /\ Len(fed) < MaxTokens
    /\ str_stack' = AddToTop(str_stack, DangerSymbolsKept(d))
    /\ Handled(Tok("data", "", NoAttrs, d))
    /\ UNCHANGED <<ppc, perr, calls, attr_stack>>

handle_data(d) ==
    /\ ppc = "feeding"
    /\ Len(fed) < MaxTokens
    /\ str_stack' = AddToTop(str_stack, danger_symbols(d))
    /\ Handled(Tok("data", "", NoAttrs, d))
    /\ UNCHANGED <<ppc, perr, calls, attr_stack>>

handle_endtag_strict(tag) ==
    /\ ppc = "feeding"
    /\ Len(fed) < MaxTokens
    /\ IF tag = GSSML_TAG
       THEN LET s == Top(str_stack)
                rest == Pop(str_stack)
            IN  IF attr_stack # <<>>
                THEN LET dattrs == Top(attr_stack)
                         kw == Kwargs(dattrs)
                     IN  /\ attr_stack' = Pop(attr_stack)
                         /\ IF LookupRaises(dattrs) # ""
                            THEN /\ Raised(LookupRaises(dattrs))
                                 /\ str_stack' = rest
                                 /\ UNCHANGED calls
                            ELSE /\ calls' = Append(calls, [fn |-> dattrs["type"],
                                                           args |-> <<s>>, kw |-> kw,
                                                           at |-> Len(fed) + 1,
                                                           on |-> handler])
                                 /\ str_stack' =
                                       AddToTop(rest, TransfResult(dattrs["type"], <<s>>, kw))
                                 /\ UNCHANGED <<ppc, perr>>
                ELSE /\ Raised("IndexError")
                     /\ str_stack' = rest
                     /\ UNCHANGED <<attr_stack, calls>>
       ELSE UNCHANGED <<str_stack, attr_stack, ppc, perr, calls>>
    /\ Handled(Tok("end", tag, NoAttrs, <<>>))

\* An exception leaves the stacks as the handler has left them by then.
handle_endtag(tag) ==
    /\ ppc = "feeding"
    /\ Len(fed) < MaxTokens
    /\ IF tag = GSSML_TAG
       THEN LET s == Top(str_stack)
                rest == Pop(str_stack)
                put(x) == IF rest # <<>> THEN AddToTop(rest, x) ELSE Append(rest, x)
            IN  IF attr_stack # <<>>
                THEN LET dattrs == Top(attr_stack)
                         kw == Kwargs(dattrs)
                     IN  /\ attr_stack' = Pop(attr_stack)
                         /\ IF LookupRaises(dattrs) # ""
                            THEN /\ Raised(LookupRaises(dattrs))
                                 /\ str_stack' = rest
                                 /\ UNCHANGED calls
                            ELSE /\ calls' = Append(calls, [fn |-> dattrs["type"],
                                                           args |-> <<s>>, kw |-> kw,
                                                           at |-> Len(fed) + 1,
                                                           on |-> handler])
                                 /\ IF TransfRaises(dattrs["type"], <<s>>, kw) # ""
                                    THEN /\ Raised(TransfRaises(dattrs["type"], <<s>>, kw))
                                         /\ str_stack' = rest
                                    ELSE /\ str_stack' =
                                              put(TransfResult(dattrs["type"], <<s>>, kw))
                                         /\ UNCHANGED <<ppc, perr>>
                ELSE /\ str_stack' = put(s)
                     /\ UNCHANGED <<attr_stack, ppc, perr, calls>>
       ELSE UNCHANGED <<str_stack, attr_stack, ppc, perr, calls>>
    /\ Handled(Tok("end", tag, NoAttrs, <<>>))

handle_startendtag(tag, attrs) ==
    /\ ppc = "feeding"
    /\ Len(fed) < MaxTokens
    /\ IF tag = GSSML_TAG
       THEN LET kw == Kwargs(attrs)
            IN  IF LookupRaises(attrs) # ""
                THEN /\ Raised(LookupRaises(attrs))
                     /\ UNCHANGED <<str_stack, calls>>
                ELSE /\ calls' = Append(calls, [fn |-> attrs["type"], args |-> <<>>,
                                               kw |-> kw, at |-> Len(fed) + 1,
                                               on |-> handler])
                     /\ IF TransfRaises(attrs["type"], <<>>, kw) # ""
                        THEN /\ Raised(TransfRaises(attrs["type"], <<>>, kw))
                             /\ UNCHANGED str_stack
                        ELSE /\ str_stack' =
                                  AddToTop(str_stack, TransfResult(attrs["type"], <<>>, kw))
                             /\ UNCHANGED <<ppc, perr>>
       ELSE UNCHANGED <<str_stack, ppc, perr, calls>>
    /\ Handled(Tok("startend", tag, attrs, <<>>))
    /\ UNCHANGED attr_stack

TranscribeReturnsFirst ==
    /\ ppc = "feeding"
    /\ ppc' = "done"
    /\ result' = Capitalize(str_stack[1])
    /\ UNCHANGED <<perr, str_stack, attr_stack, fed, calls, depths, aborted,
                   loaded, handler, built, ttsVars, transcriberVars>>

\* transcribe, from self.close() on
TranscribeReturn ==
    /\ ppc = "feeding"
    /\ IF Len(str_stack) = 1
       THEN /\ ppc' = "done"
            /\ result' = Capitalize(str_stack[1])
            /\ UNCHANGED perr
       ELSE /\ Raised("AssertionError")
            /\ UNCHANGED result
    /\ UNCHANGED <<str_stack, attr_stack, fed, calls, depths, aborted,
                   loaded, handler, built, ttsVars, transcriberVars>>

\* ---------------------------------------------------------- specifications
\* Calls of text_to_speech that do not overlap (one caller thread), with the
\* cleanup thread running beside them.
Next ==
    \/ \E r \in Requests : Begin(MainThread, r)
    \/ CallerStep(MainThread)
    \/ Worker
    \/ EvictAll

Spec == Init /\ [][Next]_vars

\* Several caller threads, whose calls of text_to_speech overlap.
ThreadRequests == {r \in Requests : ArgText(r) <= ThreadTexts /\ r.voice = NotPassed}

NextThreads ==
    \/ \E t \in Threads, r \in ThreadRequests : nextFile <= ThreadFiles /\ Begin(t, r)
    \/ \E t \in Threads : CallerStep(t)
    \/ Worker
    \/ EvictAll

SpecThreads == Init /\ [][NextThreads]_vars

\* Calls that do not overlap, among them the calls that may be refused.
NextErrors ==
    \/ \E r \in ErrorRequests : Begin(MainThread, r)
    \/ CallerStep(MainThread)
    \/ Worker
    \/ EvictAll

SpecErrors == Init /\ [][NextErrors]_vars

\* The configuration of tests/cache_test.py (cache of one entry, cleaned), with
\* the cleanup thread scheduled fairly while the process runs.
InitLive == Init /\ clean /\ maxsize = 1

SpecLive ==
    InitLive /\ [][Next]_vars /\ WF_vars(WorkerGet) /\ WF_vars(WorkerUnlink)

\* A parser on which transcribe is called, any number of times, with the
\* handler calls HTMLParser.feed can make; a parser whose transcribe has
\* raised is not used again.
NextParser ==
    \/ ppc # "error" /\ Transcribe
    \/ \E tag \in {GSSML_TAG, OtherTag}, attrs \in AttrMaps :
          /\ (tag = OtherTag => attrs = NoAttrs)
          /\ handle_starttag(tag, attrs)
    \/ \E d \in DataTexts : handle_data(d)
    \/ \E tag \in {GSSML_TAG, OtherTag} : handle_endtag(tag)
    \/ \E tag \in {GSSML_TAG, OtherTag}, attrs \in AttrMaps :
          /\ (tag = OtherTag => attrs = NoAttrs)
          /\ handle_startendtag(tag, attrs)
    \/ TranscribeReturn

InitParser == Init /\ maxsize = 0 /\ ~clean

SpecParser == InitParser /\ [][NextParser]_vars

\* gssml(data, type=t, **kw), as the handler calls HTMLParser.feed makes of
\* the string it returns: '<greynir type="t" k="v">data</greynir>', or
\* '<greynir type="t" k="v" />' if data is None.
None == <<"None">>      \* no data; the word None is no character of a text

gssml(d, t, kw) ==
    LET attrs == [n \in {"type"} \cup DOMAIN kw |-> IF n = "type" THEN t ELSE kw[n]]
    IN  IF d = None THEN <<Tok("startend", GSSML_TAG, attrs, <<>>)>>
        ELSE <<Tok("start", GSSML_TAG, attrs, <<>>)>>
             \o (IF d = <<>> THEN <<>> ELSE <<Tok("data", "", NoAttrs, d)>>)
             \o <<Tok("end", GSSML_TAG, NoAttrs, <<>>)>>

\* The sample data of each transformation name (None: gssml gets no data) and
\* the keyword arguments tried with it, after tests/test_parser.py.
SampleData(t) == IF t = "vbreak" THEN {None} ELSE {<<"1">>, <<"a">>, <<"a", "1">>}

SampleKwargs(t) ==
    IF t = "number" THEN {NoAttrs, [gender |-> "kk"]}
    ELSE IF t = "vbreak" THEN {NoAttrs, [strength |-> "weak"], [time |-> "1s"]}
    ELSE {NoAttrs}

Around == {<<>>, <<Tok("data", "", NoAttrs, <<"a">>)>>}

\* f"a{gssml(d, type=t, **kw)}a", with and without the text around the element
WrappedSamples ==
    UNION {{lead \o gssml(d, t, kw) \o trail :
               d \in SampleData(t), kw \in SampleKwargs(t), lead \in Around, trail \in Around} :
           t \in Methods}

RoundTripInputs == {input \in WrappedSamples : Len(input) <= MaxTokens}

\* feed has called the handlers for a part of the input, tok comes next
Feeds(input, kind) ==
    /\ Len(fed) < Len(input)
    /\ SubSeq(input, 1, Len(fed)) = fed
    /\ input[Len(fed) + 1].kind = kind

\* transcribe called on the strings gssml composes
NextRoundTrip ==
    \/ Transcribe
    \/ \E input \in RoundTripInputs :
          /\ Feeds(input, "start")
          /\ handle_starttag(input[Len(fed) + 1].tag, input[Len(fed) + 1].attrs)
    \/ \E input \in RoundTripInputs :
          /\ Feeds(input, "data")
          /\ handle_data(input[Len(fed) + 1].data)
    \/ \E input \in RoundTripInputs :
          /\ Feeds(input, "end")
          /\ handle_endtag(input[Len(fed) + 1].tag)
    \/ \E input \in RoundTripInputs :
          /\ Feeds(input, "startend")
          /\ handle_startendtag(input[Len(fed) + 1].tag, input[Len(fed) + 1].attrs)
    \/ fed \in RoundTripInputs /\ TranscribeReturn

SpecRoundTrip == InitParser /\ [][NextRoundTrip]_vars

\* A parser that is used again after its transcribe has raised.  The markup
\* is made of elements that fail when they are closed, when they are not
\* closed, and of empty tags that fail; and of elements and data that do not.
IsolationAttrs == {[type |-> "number", gender |-> "kk"], [type |-> "nope"]}

NextIsolation ==
    \/ Transcribe
    \/ \E attrs \in IsolationAttrs : handle_starttag(GSSML_TAG, attrs)
    \/ handle_data(<<"a">>)
    \/ handle_endtag(GSSML_TAG)
    \/ \E attrs \in IsolationAttrs : handle_startendtag(GSSML_TAG, attrs)
    \/ TranscribeReturn

SpecIsolation == InitParser /\ [][NextIsolation]_vars

\* Parsers constructed for any voice, in a process that has imported any of
\* the voice modules, and used for the markup of one element.
ConstructVoices == UNION {ModuleVoices(m) : m \in VoiceModules} \cup {"Nobody"}

InitConstruct ==
    /\ InitCache /\ maxsize = 0 /\ ~clean
    /\ InitTranscribe
    /\ loaded \in SUBSET VoiceModules
    /\ handler = ""
    /\ built = [voice |-> "", warned |-> FALSE]
    /\ ppc = "unbuilt"
    /\ NoCall

NextConstruct ==
    \/ \E voice \in ConstructVoices : Construct(voice)
    \/ Transcribe
    \/ handle_starttag(GSSML_TAG, [type |-> "number", gender |-> "kk"])
    \/ handle_data(<<"a">>)
    \/ handle_endtag(GSSML_TAG)
    \/ TranscribeReturn

SpecConstruct == InitConstruct /\ [][NextConstruct]_vars

\* Every time of day without seconds, given to DefaultTranscriber.time as a
\* text and to token_transcribe as a token.
InitTime ==
    /\ InitCache /\ maxsize = 0 /\ ~clean
    /\ InitBuilt
    /\ arg \in [hour : Hours, minute : Minutes]
    /\ ret = <<>>

NextTime == TimeRegex \/ TimeToken

SpecTime == InitTime /\ [][NextTime]_vars

\* Every written number, as the number of an amount and of a measurement.
InitPlural ==
    /\ InitCache /\ maxsize = 0 /\ ~clean
    /\ InitBuilt
    /\ arg \in WrittenNumbers
    /\ ret = <<>>

NextPlural == Amount \/ Measurement

SpecPlural == InitPlural /\ [][NextPlural]_vars

\* Every sample date text.
InitDates ==
    /\ InitCache /\ maxsize = 0 /\ ~clean
    /\ InitBuilt
    /\ arg \in DateTexts
    /\ ret = <<>>

NextDates == Date

SpecDates == InitDates /\ [][NextDates]_vars

\* Every token with every value of the options.
InitTokens ==
    /\ InitCache /\ maxsize = 0 /\ ~clean
    /\ InitBuilt
    /\ arg \in [token : Tokens, options : [Flags -> BOOLEAN]]
    /\ ret = <<>>

NextTokens == TokenTranscribe

SpecTokens == InitTokens /\ [][NextTokens]_vars

\* ------------------------------------------------------------------ claims
KeyOf(t) == hashkey(req[t])

Returning(t) == pc[t] = "return"

\* C1. Cache idempotence: with a maximum entry count of at least 1, a call
\* that returns for a key for which an earlier call has returned, the key not
\* having been evicted since, returns the same file path as that earlier call
\* and has not invoked the service function.
C1_CacheIdempotence ==
    \A t \in Threads :
        (Returning(t) /\ maxsize >= 1 /\ lastRet[KeyOf(t)] > NoFile)
            => (val[t] = lastRet[KeyOf(t)] /\ ~invoked[t])

C1_Witness ==
    \E t \in Threads :
        /\ Returning(t) /\ maxsize >= 1 /\ lastRet[KeyOf(t)] > NoFile
        /\ outcome[t] = "hit"

\* C2. At most one computation per key at a time: the service function is
\* never in progress in two caller threads for the same key.
C2_OneComputationPerKey ==
    \A t, u \in Threads :
        (t # u /\ pc[t] = "backend" /\ pc[u] = "backend") => KeyOf(t) # KeyOf(u)

\* C3. With a maximum entry count N >= 1 the cache never holds more than N
\* entries, also when caller threads call concurrently.
C3_CacheBounded ==
    maxsize >= 1 => Cardinality(DOMAIN data) <= maxsize

\* C4. LFU eviction.  The entry a caller's insertion evicts has the lowest
\* use count of the entries present and is the earliest inserted of those
\* with that count; it is never the key being inserted; an insertion evicts
\* at most one entry, and exactly one when the cache was full; an entry used
\* more often than every other one is not the victim when the maximum size
\* is above 1; and every cache hit adds one to the use count of its key.
Uses(c, i) == -c[i].n

VictimIndex(e) == CHOOSE i \in 1..Len(e.before) : e.before[i].key = e.key

C4_VictimIsLFU ==
    (lastEvict # <<>> /\ lastEvict[1].by = "caller") =>
        LET e == lastEvict[1]
            c == e.before
            v == VictimIndex(e)
        IN  /\ \A i \in 1..Len(c) : Uses(c, v) <= Uses(c, i)
            /\ \A i \in 1..Len(c) : Uses(c, i) = Uses(c, v) => v <= i
            /\ Len(c) = maxsize
            /\ (maxsize > 1 => ~(\A i \in 1..Len(c) : i # v => Uses(c, v) > Uses(c, i)))

C4_InsertionEvictsOne ==
    \A t \in Threads :
        /\ nevict[t] <= 1
        /\ (pc[t] \in {"makeroom", "insert"} /\ nevict[t] = 1)
              => lastEvict[1].key # KeyOf(t)
        /\ (Returning(t) /\ outcome[t] = "stored")
              => /\ KeyOf(t) \in DOMAIN data /\ data[KeyOf(t)] = val[t]
                 /\ (nevict[t] = 1 <=> (Cardinality(DOMAIN data) = maxsize
                                        /\ lastEvict # <<>>
                                        /\ lastEvict[1].file \notin CachedFiles
                                        /\ lastEvict[1].key \notin DOMAIN data
                                        /\ Len(lastEvict[1].before) = maxsize
                                        /\ lastEvict[1].by = "caller"
                                        /\ KeyOf(t) \notin
                                             {lastEvict[1].before[i].key :
                                                 i \in 1..Len(lastEvict[1].before)}))

C4_HitCounts ==
    \A t \in Threads :
        (pc[t] = "lookup" /\ pc'[t] = "return")
            => CounterGet(counter', KeyOf(t)) = CounterGet(counter, KeyOf(t)) - 1

C4_LFUEviction ==
    [](C4_VictimIsLFU /\ C4_InsertionEvictsOne) /\ [][C4_HitCounts]_vars

C4_Witness ==
    /\ lastEvict # <<>> /\ lastEvict[1].by = "caller" /\ maxsize = 2
    /\ LET c == lastEvict[1].before
       IN  /\ Len(c) = 2
           /\ lastEvict[1].key = c[2].key
           /\ Uses(c, 1) > Uses(c, 2)
    /\ \E t \in Threads : Returning(t) /\ outcome[t] = "stored" /\ nevict[t] = 1

\* C5. Cache of one entry, cleaned.  The call that evicts an entry leaves the
\* evicted file on disk: a file on the queue is still on disk and no step of a
\* caller removes a file.  The first file evicted is eventually taken from the
\* queue and unlinked by the cleanup thread (removed unless the operating
\* system refuses), as long as the process has not exited.  The file of the key
\* that took its place stays on disk as the cached value of that key.
Files == 1..MaxFiles

C5_EvictedFileIsQueued ==
    (clean /\ maxsize = 1 /\ tpc = "running") =>
        /\ QueueFiles \subseteq disk
        /\ CachedFiles \subseteq disk
        /\ \A t \in Threads :
              (Returning(t) /\ outcome[t] = "stored" /\ nevict[t] = 1) =>
                  /\ data = MapPut(EmptyMap, KeyOf(t), val[t])
                  /\ LET f == lastEvict[1].file
                     IN  f \in QueueFiles \/ wfile = f \/ f \notin disk

C5_CallerKeepsDisk == (pc' # pc) => (disk \subseteq disk')

FirstEviction(f) ==
    /\ clean /\ maxsize = 1
    /\ evictedFiles = {f}
    /\ lastEvict[1].by = "caller"

C5_EvictionAndCleanup ==
    /\ []C5_EvictedFileIsQueued
    /\ [][C5_CallerKeepsDisk]_vars
    /\ \A f \in Files :
          [](FirstEviction(f) => <>(f \notin disk \/ f \in failed \/ tpc = "exited"))

C5_Witness ==
    /\ clean /\ maxsize = 1 /\ tpc = "running" /\ wpc = "get"
    /\ evictedFiles = {1} /\ 1 \notin disk /\ failed = {}
    /\ CachedFiles = {2} /\ 2 \in disk
    /\ \E k \in DOMAIN data : lastRet[k] = 2

\* C6 as stated. With a maximum entry count of 0 every computed result is
\* stored: a call that returns leaves its key in the cache.
C6_ZeroIsUnbounded ==
    maxsize = 0 => \A t \in Threads : Returning(t) => KeyOf(t) \in DOMAIN data

\* C6 as amended. With a maximum entry count of 0 the cache stores nothing:
\* it stays empty, nothing is evicted or queued, every call that returns has
\* invoked the service function and returns the file it has just made, and
\* the refused store raises nothing to the caller.
C6_ZeroCachesNothing ==
    maxsize = 0 =>
        /\ data = EmptyMap /\ counter = <<>> /\ currsize = 0
        /\ evictedFiles = {} /\ QueueFiles = {}
        /\ \A t \in Threads :
              /\ Returning(t) =>
                    /\ outcome[t] = "computed" /\ invoked[t]
                    /\ val[t] = nextFile - 1 /\ val[t] \in disk
              /\ pc[t] = "raise" => outcome[t] \in {"ValueError", "BackendError"}

C6_Witness ==
    /\ maxsize = 0
    /\ \E t \in Threads :
          /\ Returning(t)
          /\ lastRet[KeyOf(t)] > NoFile
          /\ val[t] # lastRet[KeyOf(t)]

\* C7. Entry lifecycle.  A file that has been evicted is never a cached value
\* again; a key whose entry has been evicted is absent until a call stores a
\* new entry for it; the call that returns for such a key has invoked the
\* service function and returns a file that was never evicted; and a cache hit
\* returns a file that is on disk, was never evicted and is not on the queue
\* or in the hands of the cleanup thread.
C7_EntryLifecycle ==
    /\ CachedFiles \cap evictedFiles = {}
    /\ \A k \in Keys :
          (lastRet[k] = Evicted /\ k \in DOMAIN data) =>
              \E t \in Threads :
                  Returning(t) /\ KeyOf(t) = k /\ outcome[t] = "stored"
    /\ \A t \in Threads :
          /\ (Returning(t) /\ outcome[t] = "hit") =>
                /\ val[t] \notin evictedFiles
                /\ val[t] \in disk
                /\ val[t] \notin QueueFiles
                /\ val[t] # wfile
          /\ (Returning(t) /\ lastRet[KeyOf(t)] = Evicted) =>
                /\ invoked[t]
                /\ val[t] \notin evictedFiles
                /\ outcome[t] = "stored" => data[KeyOf(t)] = val[t]

C7_Witness ==
    \E t \in Threads :
        /\ Returning(t) /\ outcome[t] = "stored"
        /\ lastRet[KeyOf(t)] = Evicted

\* C8. When _evict_all has returned the cache is empty and every file that
\* was a cached value when it started has been unlinked by it, except a file
\* whose own unlink was refused.
C8_TeardownDrains ==
    tpc = "exited" =>
        /\ DOMAIN data = {} /\ currsize = 0
        /\ (atTeardown \ failed) \cap disk = {}

\* C9. With cache cleaning enabled, when teardown has completed no audio file
\* made during the run is left on disk (except one whose unlink was refused).
C9_NoFileLeaks ==
    (clean /\ tpc = "exited") => disk \subseteq failed

\* C10. A failed unlink is swallowed in the cleanup thread: the thread does
\* not end because of it and goes on consuming the queue.
C10_WorkerSurvivesFailure ==
    wpc # "crashed"

\* C11. Teardown always terminates: once _evict_all has started, its next step
\* can always be taken, whatever the cleanup thread is doing; it has put the
\* sentinel on the queue; when its loop is over the cache is empty; and the
\* cleanup thread that has taken the sentinel is stopped for good, whatever
\* is enqueued after the sentinel.
SentinelPushed == wpc = "stopped" \/ \E i \in 1..Len(expired) : expired[i] = NoneItem

C11_TeardownTerminates ==
    /\ tpc \in {"evicting", "unlink", "join"} => ENABLED EvictAll
    /\ tpc # "running" => SentinelPushed
    /\ tpc \in {"join", "exited"} => (DOMAIN data = {} /\ currsize = 0)
    /\ wpc = "stopped" => ~ENABLED Worker

\* C12. text_to_speech rejects a voice that is not in VOICES and a speed
\* outside [0.5, 2.0] with a ValueError before the service function is called:
\* such a call gets no further than the check, has not invoked the service
\* function, has evicted nothing and has no entry under its key, and none of
\* its steps changes the cache or the deletion queue.
Rejected(r) ==
    \/ ArgVoice(r) \notin VOICES
    \/ ArgSpeed(r) < MIN_SPEED
    \/ ArgSpeed(r) > MAX_SPEED

C12_RejectedState ==
    \A t \in Threads :
        Rejected(req[t]) =>
            /\ pc[t] \in {"idle", "lookup", "call", "raise"}
            /\ ~invoked[t] /\ nevict[t] = 0
            /\ KeyOf(t) \notin DOMAIN data
            /\ pc[t] = "raise" => outcome[t] = "ValueError"
            /\ outcome[t] \in {"none", "ValueError"}

C12_RejectedStep ==
    \A t \in Threads :
        (Rejected(req'[t]) /\ pc'[t] # pc[t])
            => UNCHANGED <<data, counter, currsize, expired, disk, nextFile>>

C12_RejectsBeforeBackend == []C12_RejectedState /\ [][C12_RejectedStep]_vars

C12_Witness ==
    \E t \in Threads :
        /\ pc[t] = "raise" /\ outcome[t] = "ValueError"
        /\ ArgSpeed(req[t]) < MIN_SPEED
        /\ maxsize = 1 /\ currsize = 1

\* C13. A request whose audio format the service of the selected voice does
\* not support never reaches the service function.
C13_FormatRejected ==
    \A t \in Threads : invoked[t] => ArgFormat(req[t]) \in AUDIO_FORMATS

\* C14. A failure of the service function reaches the caller as it is and the
\* call is not tried again: the failed call has invoked the service function,
\* stored and evicted nothing and leaves no entry under its key; the steps
\* that fail and raise leave the cache, the queue and the disk as they were
\* and lead only back to the caller; and a later call with the same arguments
\* finds no entry and goes on to the service function.
C14_FailedState ==
    \A t \in Threads :
        /\ outcome[t] = "BackendError" =>
              /\ pc[t] \in {"raise", "idle"}
              /\ invoked[t] /\ nevict[t] = 0 /\ val[t] = NoFile
              /\ KeyOf(t) \notin DOMAIN data
        /\ repeats[t] =>
              /\ outcome[t] # "hit"
              /\ pc[t] \notin {"idle", "lookup", "call"} => invoked[t]

C14_FailedStep ==
    \A t \in Threads :
        /\ (pc[t] = "backend" /\ pc'[t] = "raise") =>
              /\ outcome'[t] = "BackendError"
              /\ UNCHANGED <<data, counter, currsize, expired, disk, nextFile>>
        /\ (pc[t] = "raise" /\ pc'[t] # "raise") =>
              /\ pc'[t] = "idle"
              /\ UNCHANGED <<data, counter, currsize, expired, disk, nextFile, outcome>>

C14_BackendFailurePropagates == []C14_FailedState /\ [][C14_FailedStep]_vars

C14_Witness ==
    \E t \in Threads :
        /\ repeats[t] /\ pc[t] = "return" /\ outcome[t] = "stored"
        /\ maxsize = 1 /\ nevict[t] = 1

\* ------------------------------------------------- claims about the parser
\* The markup, read without the parser's stacks.
IsOpen(tok) == tok.kind = "start" /\ tok.tag = GSSML_TAG

IsClose(tok) == tok.kind = "end" /\ tok.tag = GSSML_TAG

IsEmptyTag(tok) == tok.kind = "startend" /\ tok.tag = GSSML_TAG

Opens(s, a, b) == Cardinality({k \in a..b : IsOpen(s[k])})

Closes(s, a, b) == Cardinality({k \in a..b : IsClose(s[k])})

\* s[a..b] is balanced: as many closing as opening target tags, and no
\* closing tag before its opening tag.
Balanced(s, a, b) ==
    /\ Opens(s, a, b) = Closes(s, a, b)
    /\ \A k \in a..b : Closes(s, a, k) <= Opens(s, a, k)

\* The closing tag at j closes the opening tag at i.
Matches(s, i, j) ==
    /\ i < j /\ IsOpen(s[i]) /\ IsClose(s[j])
    /\ Balanced(s, i + 1, j - 1)

UnmatchedOpens(s) ==
    {i \in 1..Len(s) : IsOpen(s[i]) /\ ~\E j \in 1..Len(s) : Matches(s, i, j)}

UnmatchedCloses(s) ==
    {j \in 1..Len(s) : IsClose(s[j]) /\ ~\E i \in 1..Len(s) : Matches(s, i, j)}

\* What a stretch of markup with no unclosed target tag is to become: data
\* with its danger symbols replaced, an element replaced by what the method
\* of its type makes of its content, every other tag dropped.
RECURSIVE Render(_)
Render(s) ==
    IF s = <<>> THEN <<>>
    ELSE LET h == Head(s)
             ends == {j \in 1..Len(s) : Matches(s, 1, j)}
         IN  IF h.kind = "data"
             THEN danger_symbols(h.data) \o Render(Tail(s))
             ELSE IF IsEmptyTag(h)
             THEN TransfResult(h.attrs["type"], <<>>, Kwargs(h.attrs)) \o Render(Tail(s))
             ELSE IF IsOpen(h) /\ ends # {}
             THEN LET j == CHOOSE j \in ends : TRUE
                  IN  TransfResult(h.attrs["type"], <<Render(SubSeq(s, 2, j - 1))>>,
                                   Kwargs(h.attrs))
                          \o Render(SubSeq(s, j + 1, Len(s)))
             ELSE Render(Tail(s))

\* The unclosed opening tags, in their order.
RECURSIVE SortedSeq(_)
SortedSeq(S) ==
    IF S = {} THEN <<>>
    ELSE LET m == CHOOSE x \in S : \A y \in S : x <= y
         IN  <<m>> \o SortedSeq(S \ {m})

OpenAt(s) == SortedSeq(UnmatchedOpens(s))

\* C15. Markup in which a target opening tag is never closed makes
\* transcribe fail: while it is fed there is one buffer on the stack for the
\* root and one for each opening tag not closed yet, and transcribe returns a
\* result only from markup that has no unclosed opening tag.
C15_UnclosedTagFails ==
    /\ ppc = "feeding" => Len(str_stack) = 1 + Cardinality(UnmatchedOpens(fed))
    /\ ppc = "done" => UnmatchedOpens(fed) = {}
    /\ ppc = "error" => result = <<>>

C15_Witness ==
    /\ ppc = "error" /\ perr = "AssertionError"
    /\ UnmatchedOpens(fed) = {1} /\ LookupRaises(fed[1].attrs) = ""
    /\ Len(fed) = 2 /\ fed[2].kind = "data"
    /\ Len(str_stack) = 2

WithoutUnmatchedCloses(s) ==
    LET keep == SortedSeq((1..Len(s)) \ UnmatchedCloses(s))
    IN  [k \in 1..Len(keep) |-> s[keep[k]]]

C16_StrayCloseStep ==
    (ppc = "feeding" /\ Len(fed') = Len(fed) + 1 /\ Len(fed') \in UnmatchedCloses(fed'))
        => /\ attr_stack = <<>>
           /\ UNCHANGED <<str_stack, attr_stack, calls, ppc, perr>>

C16_StrayCloseState ==
    /\ ppc = "feeding" => Len(attr_stack) = Cardinality(UnmatchedOpens(fed))
    /\ ppc = "done" => result = Capitalize(Render(WithoutUnmatchedCloses(fed)))

TagClosedAt(s, j) ==
    IF IsEmptyTag(s[j]) THEN {s[j]}
    ELSE {s[i] : i \in {i \in 1..Len(s) : Matches(s, i, j)}}

BadType(attrs) ==
    \/ "type" \notin DOMAIN attrs
    \/ attrs["type"] = ""
    \/ attrs["type"] \notin Methods

C17_BadTypeIsFatal ==
    \A j \in 1..Len(fed) : \A tag \in TagClosedAt(fed, j) :
        BadType(tag.attrs) =>
            /\ j = Len(fed)
            /\ ppc = "error" /\ perr \in {"KeyError", "AssertionError", "AttributeError"}
            /\ \A n \in 1..Len(calls) : calls[n].at # j
            /\ result = <<>>

C17_Witness ==
    /\ ppc = "error" /\ perr = "AttributeError"
    /\ IsClose(fed[Len(fed)])
    /\ \E tag \in TagClosedAt(fed, Len(fed)) : tag.attrs = [type |-> "nope"]
    /\ Len(calls) = 1

\* C18. Dispatch on close.  For every closing tag that closes an opening tag
\* with type K, the method K has been called exactly once for it, with the
\* text of the popped buffer (what the content of the element has become) and
\* the attributes other than type as keyword arguments; the calls are made in
\* the order of the closing tags, so an inner element before the one around
\* it, whose text holds the inner result; the depth of the stack after the
\* closing tag is the depth before the opening tag; and every buffer on the
\* stack holds what the markup since the opening tag below it has become, the
\* results appended.
DepthBefore(i) == IF i = 1 THEN 1 ELSE depths[i - 1]

C18_CallsOnClose ==
    \A i, j \in 1..Len(fed) :
        (Matches(fed, i, j) /\ (j < Len(fed) \/ ppc # "error")) =>
            LET cs == {n \in 1..Len(calls) : calls[n].at = j}
            IN  /\ Cardinality(cs) = 1
                /\ \A n \in cs :
                      /\ calls[n].fn = fed[i].attrs["type"]
                      /\ calls[n].args = <<Render(SubSeq(fed, i + 1, j - 1))>>
                      /\ calls[n].kw =
                            [a \in DOMAIN fed[i].attrs \ {"type"} |-> fed[i].attrs[a]]
                /\ depths[j] = DepthBefore(i)

C18_BuffersHoldResults ==
    ppc = "feeding" =>
        LET o == OpenAt(fed)
            from(k) == IF k = 1 THEN 1 ELSE o[k - 1] + 1
            upto(k) == IF k = Len(o) + 1 THEN Len(fed) ELSE o[k] - 1
        IN  /\ Len(str_stack) = Len(o) + 1
            /\ \A k \in 1..Len(str_stack) :
                  str_stack[k] = Render(WithoutUnmatchedCloses(SubSeq(fed, from(k), upto(k))))
            /\ attr_stack = [k \in 1..Len(o) |-> fed[o[k]].attrs]

C18_DispatchOnClose ==
    /\ C18_CallsOnClose
    /\ C18_BuffersHoldResults
    /\ \A n, m \in 1..Len(calls) : n < m => calls[n].at < calls[m].at

C18_Witness ==
    /\ ppc = "done" /\ Len(calls) = 2 /\ Len(fed) = 4
    /\ Matches(fed, 1, 4) /\ Matches(fed, 2, 3)
    /\ calls[2].fn = "number" /\ calls[2].kw = [gender |-> "kk"]
    /\ calls[2].args[1] # <<>>
    /\ calls[2].args[1] = TransfResult(calls[1].fn, calls[1].args, calls[1].kw)

\* C19. An empty target tag <greynir type=K .../> with a type K that is a
\* method calls K with the empty text and the other attributes, pushes and
\* pops nothing and appends the result to the top buffer.
C19_EmptyTagStep ==
    (/\ ppc = "feeding" /\ Len(fed') = Len(fed) + 1
     /\ IsEmptyTag(fed'[Len(fed')])
     /\ LookupRaises(fed'[Len(fed')].attrs) = "") =>
        LET tag == fed'[Len(fed')]
        IN  /\ ppc' = "feeding"
            /\ attr_stack' = attr_stack
            /\ str_stack' = AddToTop(str_stack,
                                TransfResult(tag.attrs["type"], << <<>> >>, Kwargs(tag.attrs)))

C19_EmptyTagCallsWithEmptyText == [][C19_EmptyTagStep]_vars

\* C20. What transcribe returns holds no tag of the markup: for every
\* element and every empty tag of the markup one method was called, every
\* other tag left nothing, and no character &, < or > of the data is in the
\* result; the result of markup without target tags is its data, in order,
\* with the danger symbols replaced by their words (and the first letter made
\* a capital letter).
RECURSIVE DataOf(_)
DataOf(s) ==
    IF s = <<>> THEN <<>>
    ELSE IF Head(s).kind = "data" THEN Head(s).data \o DataOf(Tail(s))
    ELSE DataOf(Tail(s))

RECURSIVE Spoken(_)
Spoken(txt) ==
    IF txt = <<>> THEN <<>>
    ELSE IF Len(txt) >= 2 /\ txt[1] = "<" /\ txt[2] = "="
         THEN <<" minna eda jafnt og ">> \o Spoken(SubSeq(txt, 3, Len(txt)))
    ELSE IF Len(txt) >= 2 /\ txt[1] = ">" /\ txt[2] = "="
         THEN <<" staerra eda jafnt og ">> \o Spoken(SubSeq(txt, 3, Len(txt)))
    ELSE <<(CASE txt[1] = "&" -> " og "
              [] txt[1] = "<" -> " minna en "
              [] txt[1] = ">" -> " staerra en "
              [] OTHER -> txt[1])>> \o Spoken(Tail(txt))

RECURSIVE SpokenData(_)
SpokenData(s) ==
    IF s = <<>> THEN <<>>
    ELSE IF Head(s).kind = "data" THEN Spoken(Head(s).data) \o SpokenData(Tail(s))
    ELSE SpokenData(Tail(s))

TargetTags(s) == {k \in 1..Len(s) : s[k].tag = GSSML_TAG}

C20_NoMarkupOfInput ==
    ppc = "done" =>
        /\ \A n \in 1..Len(result) : result[n] \notin {"&", "<", ">"}
        /\ Len(calls) = Cardinality({j \in 1..Len(fed) :
                                        IsEmptyTag(fed[j]) \/ \E i \in 1..Len(fed) : Matches(fed, i, j)})
        /\ TargetTags(fed) = {} => result = Capitalize(SpokenData(fed))

C20_Witness ==
    /\ ppc = "done" /\ Len(fed) = 4
    /\ fed[1] = Tok("start", OtherTag, NoAttrs, <<>>)
    /\ fed[2] = Tok("data", "", NoAttrs, <<"<", "=", "&", ">", "=", "<", ">">>)
    /\ fed[3] = Tok("end", OtherTag, NoAttrs, <<>>)
    /\ fed[4] = Tok("data", "", NoAttrs, <<"a">>)
    /\ result = <<" minna eda jafnt og ", " og ", " staerra eda jafnt og ",
                   " minna en ", " staerra en ", "a">>

\* The words of a string that hold one of the characters < and >.
MarkupWords ==
    {"<", ">", "<break time=", "<break strength=", "<break />", "/>",
     "<p>", "</p>", "<s>", "</s>"}

HasMarkup(txt) == \E n \in 1..Len(txt) : txt[n] \in MarkupWords

\* The element of a string gssml has composed: its type, data and position.
ElementOf(s) == CHOOSE k \in 1..Len(s) : s[k].tag = GSSML_TAG

TypeOf(s) == s[ElementOf(s)].attrs["type"]

SpeechMarkupOf(s) ==
    LET k == ElementOf(s)
        t == TypeOf(s)
        kw == Kwargs(s[k].attrs)
    IN  IF t = "paragraph" THEN <<"<p>">> \o s[k + 1].data \o <<"</p>">>
        ELSE IF t = "sentence" THEN <<"<s>">> \o s[k + 1].data \o <<"</s>">>
        ELSE IF "time" \in DOMAIN kw THEN <<"<break time=", kw["time"], "/>">>
        ELSE IF "strength" \in DOMAIN kw THEN <<"<break strength=", kw["strength"], "/>">>
        ELSE <<"<break />">>

C22_StartsClean ==
    (ppc = "error" /\ ppc' = "feeding") =>
        /\ aborted' = Len(str_stack)
        /\ str_stack' = << <<>> >> /\ attr_stack' = <<>>
        /\ fed' = <<>> /\ calls' = <<>> /\ result' = <<>> /\ perr' = ""

C22_SameAsNewParser ==
    aborted > 0 =>
        /\ ppc = "feeding" =>
              /\ Len(str_stack) = Len(OpenAt(fed)) + 1
              /\ attr_stack = [k \in 1..Len(OpenAt(fed)) |-> fed[OpenAt(fed)[k]].attrs]
              /\ Top(str_stack) =
                    Render(WithoutUnmatchedCloses(
                        SubSeq(fed, IF OpenAt(fed) = <<>> THEN 1
                                    ELSE OpenAt(fed)[Len(OpenAt(fed))] + 1, Len(fed))))
        /\ ppc = "done" => result = Capitalize(Render(WithoutUnmatchedCloses(fed)))
        /\ ppc = "error" => perr # ""

C22_RequestIsolation == []C22_SameAsNewParser /\ [][C22_StartsClean]_vars

C22_Witness ==
    /\ aborted = 3
    /\ ppc = "done" /\ Len(fed) = 3
    /\ result = <<"Number(", "a", "gender=", "kk", ")">>

\* C23. GreynirSSMLParser(voice) never raises, whatever voice modules were
\* imported; for a voice that is not among the loaded voices it warns and
\* takes the transcriber of the default voice, else that of the voice; and
\* every call of a transcription method in a later transcribe is made on the
\* transcriber chosen then.
C23_UnknownVoiceFallsBack ==
    ppc # "unbuilt" =>
        /\ ppc # "failed"
        /\ built.warned <=> built.voice \notin LoadedVoices(loaded)
        /\ handler = ModuleTranscriber(ServiceOf(IF built.warned THEN DEFAULT_VOICE
                                                 ELSE built.voice))
        /\ \A n \in 1..Len(calls) : calls[n].on = handler

\* C24. Time of day, for every hour 0..23 and minute 0..59 without seconds:
\* 00:00 is the word of twelve and "a midnaetti", 12:00 the word of twelve
\* and "a hadegi", every time from 00:01 to 05:59 ends with "um nott", every
\* other time has none of the three, and DefaultTranscriber.time and
\* _time_to_text return the same words.
TimeSuffixes == {"a midnaetti", "a hadegi", "um nott"}

C24_Words(w) ==
    LET h == arg.hour
        m == arg.minute
        twelve == number_to_text(12, "nf", "hk")
    IN  /\ (h = 0 /\ m = 0) => w = twelve \o <<"a midnaetti">>
        /\ (h = 12 /\ m = 0) => w = twelve \o <<"a hadegi">>
        /\ (h <= 5 /\ ~(h = 0 /\ m = 0)) =>
              /\ w[Len(w)] = "um nott"
              /\ w[1] = number_to_text(h, "nf", "hk")[1]
              /\ \A n \in 1..(Len(w) - 1) : w[n] \notin TimeSuffixes
        /\ (h > 5 /\ ~(h = 12 /\ m = 0)) =>
              /\ \A n \in 1..Len(w) : w[n] \notin TimeSuffixes
              /\ w[1] = number_to_text(h, "nf", "hk")[1]

C25_SingularIffEndsInOne ==
    \A p \in DOMAIN ret :
        ret[p] = "et" <=>
            (endswith(Written(arg), <<"1">>) /\ ~endswith(Written(arg), <<"1", "1">>))

\* C26. At-most-once deletion: unlink is called at most once on any audio
\* file.  A file evicted while the program runs is unlinked by the cleanup
\* thread only, a file that is cached when _evict_all starts by _evict_all
\* only; and what _evict_all's own evictions put on the queue, behind the
\* None, is never taken off the queue by the cleanup thread.
C26_OneUnlink ==
    /\ ~twice
    /\ \A u \in unlinked :
          /\ u.file \in evictedFiles
          /\ u.by = "teardown" <=> u.file \in atTeardown
    /\ wfile \notin atTeardown
    /\ \A i \in 1..Len(expired) :
          expired[i] \in atTeardown =>
              \/ wpc \in {"stopped", "crashed"}
              \/ \E j \in 1..(i - 1) : expired[j] = NoneItem

C26_QueueStep ==
    (expired # <<>> /\ expired' = Tail(expired)) => Head(expired) \notin atTeardown

C26_AtMostOnceDeletion == []C26_OneUnlink /\ [][C26_QueueStep]_vars

C26_Witness ==
    /\ tpc = "exited" /\ wpc = "stopped"
    /\ \E u \in unlinked : u.by = "worker"
    /\ \E u \in unlinked : u.by = "teardown"
    /\ expired # <<>>

\* C27. Parser stack invariant: after every handler call of a transcribe
\* that has not raised, whatever the markup, the buffer stack holds at least
\* one buffer and exactly one more than the attribute stack holds; a target
\* opening tag adds one to both depths, a target closing tag that closes an
\* opening tag takes one from both, and character data and tags that are not
\* target tags change neither depth.
C27_Depths ==
    ppc \in {"feeding", "done"} =>
        /\ Len(str_stack) >= 1
        /\ Len(str_stack) = Len(attr_stack) + 1
        /\ \A k \in 1..Len(depths) : depths[k] >= 1

C27_HandlerStep ==
    (ppc = "feeding" /\ ppc' = "feeding" /\ Len(fed') = Len(fed) + 1) =>
        LET tok == fed'[Len(fed')]
            by == Len(str_stack') - Len(str_stack)
        IN  /\ Len(attr_stack') - Len(attr_stack) = by
            /\ IsOpen(tok) => by = 1
            /\ (IsClose(tok) /\ Len(fed') \notin UnmatchedCloses(fed')) => by = -1
            /\ (tok.kind = "data" \/ tok.tag # GSSML_TAG) => by = 0

C27_StackInvariant == []C27_Depths /\ [][C27_HandlerStep]_vars

C27_Witness ==
    /\ ppc = "feeding"
    /\ depths = <<2, 3, 2, 2>>
    /\ fed[4].tag = OtherTag

\* C28. Option gating in token_transcribe: a token of kind date, year,
\* email, domain, URL, amount, measurement, percentage, number or ordinal is
\* rewritten only when the option of its kind is true; with that option
\* false its text is returned unchanged whatever the other options are; and
\* with the default options numbers and ordinals are left unchanged while
\* the other eight kinds are rewritten.
FlagOf(kind) ==
    CASE kind \in {"DATE", "DATEABS", "DATEREL"} -> "dates"
      [] kind = "YEAR" -> "years"
      [] kind = "EMAIL" -> "emails"
      [] kind = "DOMAIN" -> "domains"
      [] kind = "URL" -> "urls"
      [] kind = "AMOUNT" -> "amounts"
      [] kind = "MEASUREMENT" -> "measurements"
      [] kind = "PERCENT" -> "percentages"
      [] kind = "NUMBER" -> "numbers"
      [] kind = "ORDINAL" -> "ordinals"

C28_OptionGating ==
    ret # <<>> =>
        LET kind == arg.token.kind
            flag == arg.options[FlagOf(kind)]
            rewritten == ret.txt # arg.token.txt
        IN  /\ rewritten => flag
            /\ ~flag => ret.txt = arg.token.txt
            /\ arg.options = TranscriptionOptions =>
                  (rewritten <=> kind \notin {"NUMBER", "ORDINAL"})

\* C29. The cache key is the effective request: two text_to_speech calls
\* whose effective text, voice, speed and audio format are equal hit the same
\* cache entry and trigger one backend invocation, whether an option was
\* passed with its default value or left out, and whether the text was
\* passed positionally or by keyword.  So the cache never holds two entries
\* (two audio files, two backend invocations) for one effective request.
KeyRequest(k) == Req(k.args, k.kwargs[3], k.kwargs[4], k.kwargs[2], k.kwargs[1])

Effective(r) == <<ArgText(r), ArgVoice(r), ArgSpeed(r), ArgFormat(r)>>

C29_EffectiveRequestKey ==
    \A k1, k2 \in DOMAIN data :
        Effective(KeyRequest(k1)) = Effective(KeyRequest(k2)) => k1 = k2

\* C30. DefaultTranscriber.date never raises and never invents a month: for
\* every text matched by the date pattern, a month number outside 1..12 or a
\* month name written in any letter case either leaves the text unchanged or
\* is rendered as the correct month; in particular month 0 is not rendered
\* as a month name; and a date that differs only in zero padding of day,
\* month or year renders identically.
Lower(c) ==
    CASE c = "J" -> "j" [] c = "A" -> "a" [] c = "N" -> "n" [] c = "D" -> "d"
      [] c = "O" -> "o" [] OTHER -> c

MonthNames == {_MONTH_NAMES[i] : i \in 1..12}

\* The month that a matched text names, 0 if it names none
MonthMeant(a) ==
    IF isdecimal(a.mon)
    THEN (IF Int_(a.mon) \in 1..12 THEN Int_(a.mon) ELSE 0)
    ELSE index(_MONTH_ABBREVS, [i \in 1..3 |-> Lower(a.mon[i])]) + 1

C30_NeverRaises == ret # <<>> => ret.raised = ""

C30_NoInventedMonth ==
    (ret # <<>> /\ ret.raised = "") =>
        \/ ret.txt = DateText(arg)
        \/ /\ MonthMeant(arg) # 0
           /\ \A i \in 1..Len(ret.txt) :
                 ret.txt[i] \in MonthNames => ret.txt[i] = _MONTH_NAMES[MonthMeant(arg)]
           /\ \E i \in 1..Len(ret.txt) : ret.txt[i] = _MONTH_NAMES[MonthMeant(arg)]

\* Zero padding: the rendering depends on the numbers written only.
C30_PaddingIgnored ==
    ret # <<>> =>
        \A b \in DateTexts :
            (/\ b.form = arg.form
             /\ Int_(b.d) = Int_(arg.d)
             /\ (b.y = <<>>) = (arg.y = <<>>)
             /\ Int_(b.y) = Int_(arg.y)
             /\ IF isdecimal(arg.mon)
                THEN isdecimal(b.mon) /\ Int_(b.mon) = Int_(arg.mon)
                ELSE b.mon = arg.mon)
            => date(b, "nf") = ret

C30_DateNeverRaisesNorInvents ==
    C30_NeverRaises /\ C30_NoInventedMonth /\ C30_PaddingIgnored

====
